---- MODULE Spec2Model ----
(***************************************************************************)
(* Pagination-and-aggregation engine of the NIH RePORTER MCP server        *)
(* (src/src/reporter/utils.py, tools.py, models.py).                       *)
(*                                                                         *)
(* JSON values are tagged records, so that Python's dynamic typing         *)
(* (truthiness, subscripting a str, .get on a non-dict) is modelled by     *)
(* what it does:                                                           *)
(*   None  -> [t |-> "null"]          str  -> [t |-> "str",  s |-> ...]    *)
(*   int   -> [t |-> "int", n |-> .]  bool -> [t |-> "bool", b |-> ...]    *)
(*   dict  -> [t |-> "dict", d |-> f] with f a function on the keys present*)
(*   list  -> [t |-> "list", l |-> sequence]                               *)
(* A Python call either returns or raises: [ok |-> TRUE, val |-> v] or     *)
(* [ok |-> FALSE, exc |-> "<exception class>"].                            *)
(***************************************************************************)
EXTENDS Integers, Sequences, FiniteSets, TLC

VARIABLES
  srv,            \* the upstream's behaviour for this run (environment)
  pc,             \* per invocation: "idle" | "waiting" | "done" | "failed"
  tool,           \* per invocation: the tool that was called
  fn,             \* per invocation: the pager entry point running
  search_params,  \* per invocation: the criteria it searches for
  limit,          \* per invocation: the page size argument
  offset,         \* per invocation: the local variable offset
  total_responses,\* per invocation: the local variable total_responses
  all_results,    \* per invocation: the accumulator (None before page 1)
  result,         \* per invocation: what the pager returned or raised
  returned,       \* per invocation: what the tool returned or raised
  inflight,       \* page requests sent and not yet answered
  sent,           \* history: per invocation, the payloads requested, in
                  \* order (the first MaxRequests of them)
  answers,        \* history: per invocation, the exchanges that answered
                  \* them (the first MaxRequests of them)
  raw,            \* normalizer/aggregator harness: the input page
  once,           \* harness: clean_json(raw)
  twice,          \* harness: clean_json applied to the output of clean_json
  dist,           \* harness: get_project_distributions of the input
  phase,          \* harness: the step the harness has reached
  args,           \* Criteria Model: the arguments a caller supplies
  params,         \* Criteria Model: SearchParams(**args), or its rejection
  criteria        \* Criteria Model: params.to_api_criteria()

pagerVars == <<srv, pc, tool, fn, search_params, limit, offset,
               total_responses, all_results, result, returned, inflight, sent,
               answers>>
criteriaVars == <<args, params, criteria>>
harnessVars == <<raw, once, twice, dist, phase, args, params, criteria>>
vars == <<srv, pc, tool, fn, search_params, limit, offset, total_responses,
          all_results, result, returned, inflight, sent, answers,
          raw, once, twice, dist, phase, args, params, criteria>>

(***************************************************************************)
(* Bounds of the model.                                                    *)
(***************************************************************************)
MaxTotal == 4      \* the largest total the upstream reports
MaxLimit == 3      \* the largest page size a caller passes
ConcMaxTotal == 2  \* the same two bounds, for two concurrent invocations
ConcMaxLimit == 2
LoopMaxTotal == 2  \* the largest total reported to a fetch of any page size

Invocations == {1, 2}
Criteria == {"A", "B"}

(***************************************************************************)
(* JSON / Python values.                                                   *)
(***************************************************************************)
Null == [t |-> "null"]
Str(s) == [t |-> "str", s |-> s]
Num(n) == [t |-> "int", n |-> n]
Bool(b) == [t |-> "bool", b |-> b]
Dict(f) == [t |-> "dict", d |-> f]
List(l) == [t |-> "list", l |-> l]
\* a str held as the sequence of its characters (Criteria Model)
Text(c) == [t |-> "text", c |-> c]
EmptyDict == [k \in {} |-> Null]

Ok(v) == [ok |-> TRUE, val |-> v]
Raise(e) == [ok |-> FALSE, exc |-> e]

\* Python truth value of a JSON value.
Truthy(v) ==
  CASE v.t = "null" -> FALSE
    [] v.t = "str"  -> v.s # ""
    [] v.t = "int"  -> v.n # 0
    [] v.t = "bool" -> v.b
    [] v.t = "dict" -> DOMAIN v.d # {}
    [] v.t = "list" -> Len(v.l) > 0
    [] v.t = "text" -> Len(v.c) > 0
    [] v.t = "enum" -> v.mixin # "str" \/ v.value \notin {Str(""), Text(<<>>)}
    [] v.t = "model" -> TRUE

\* d.get(k) on a dict d: the value, or None when the key is absent.
Get(v, k) == IF k \in DOMAIN v.d THEN v.d[k] ELSE Null

\* v[k] with a string key: KeyError on a dict without the key, TypeError on
\* anything that is not a dict (str, list, int, None, bool).
Subscript(v, k) ==
  IF v.t = "dict"
    THEN IF k \in DOMAIN v.d THEN Ok(v.d[k]) ELSE Raise("KeyError")
    ELSE Raise("TypeError")

\* d[k] = x
SetItem(v, k, x) ==
  Dict([y \in DOMAIN v.d \cup {k} |-> IF y = k THEN x ELSE v.d[y]])

\* del d[k]
DelItem(v, k) == Dict([y \in DOMAIN v.d \ {k} |-> v.d[y]])

(***************************************************************************)
(* Response Normalizer: clean_json (utils.py 6-34).                        *)
(***************************************************************************)
\* Sequencing of two statements: the second runs on the value of the first
\* unless the first raised.
Bind(r, F(_)) == IF r.ok THEN F(r.val) ELSE r

\* lines 22-24, entered when project.get('organization') is truthy
flatten_organization(project) ==
  Bind(Subscript(project.d["organization"], "org_name"), LAMBDA name :
  Bind(Subscript(project.d["organization"], "org_state"), LAMBDA state :
  Ok(DelItem(SetItem(SetItem(project, "org_name", name), "org_state", state),
             "organization"))))

\* lines 21-24: flatten the organization sub-object
clean_organization(project) ==
  IF project.t # "dict" THEN Raise("AttributeError")
  ELSE IF Truthy(Get(project, "organization"))
    THEN flatten_organization(project)
    ELSE Ok(project)

\* A variant that keeps the institute's code instead of its abbreviation.
clean_agency_code(project) ==
  IF Truthy(Get(project, "agency_ic_admin"))
    THEN Bind(Subscript(project.d["agency_ic_admin"], "code"),
              LAMBDA code : Ok(SetItem(project, "agency_ic_admin", code)))
    ELSE Ok(project)

\* lines 27-28: keep the abbreviation of the administering institute
clean_agency(project) ==
  IF Truthy(Get(project, "agency_ic_admin"))
    THEN Bind(Subscript(project.d["agency_ic_admin"], "abbreviation"),
              LAMBDA abbr : Ok(SetItem(project, "agency_ic_admin", abbr)))
    ELSE Ok(project)

\* line 32: [pi['full_name'] for pi in seq]
RECURSIVE full_names(_)
full_names(seq) ==
  IF seq = <<>> THEN Ok(<<>>)
  ELSE Bind(Subscript(Head(seq), "full_name"), LAMBDA name :
       Bind(full_names(Tail(seq)), LAMBDA rest : Ok(<<name>> \o rest)))

\* lines 31-32: a truthy value that is not a list iterates as characters
\* (str), keys (dict) or not at all (int, bool); each way ends in TypeError.
clean_investigators(project) ==
  IF ~Truthy(Get(project, "principal_investigators")) THEN Ok(project)
  ELSE IF project.d["principal_investigators"].t # "list" THEN Raise("TypeError")
  ELSE Bind(full_names(project.d["principal_investigators"].l), LAMBDA names :
            Ok(SetItem(project, "principal_investigators", List(names))))

\* lines 19-32: the body of the loop, for one project
clean_project(project) ==
  Bind(Bind(clean_organization(project), clean_agency), clean_investigators)

RECURSIVE clean_projects(_)
clean_projects(seq) ==
  IF seq = <<>> THEN Ok(<<>>)
  ELSE Bind(clean_project(Head(seq)), LAMBDA project :
       Bind(clean_projects(Tail(seq)), LAMBDA rest : Ok(<<project>> \o rest)))

\* The keys of a dict, as its iteration yields them.  A dict is held as the
\* function from its keys to their values, without the order in which the
\* keys were inserted, so the order is defined for a dict of one key at most.
KeysOf(f) ==
  CASE DOMAIN f = {} -> <<>>
    [] Cardinality(DOMAIN f) = 1 -> <<CHOOSE k \in DOMAIN f : TRUE>>

\* "for x in v": a list yields its items, a str its characters, a dict its
\* keys; None, an int, a bool and a member of a plain Enum are not iterable.
Iterate(v) ==
  CASE v.t = "list" -> Ok(v.l)
    [] v.t = "str" -> Ok([k \in 1..Len(v.s) |-> Str(SubSeq(v.s, k, k))])
    [] v.t = "text" -> Ok([k \in 1..Len(v.c) |-> Text(<<v.c[k]>>)])
    [] v.t = "enum" /\ v.mixin = "str" ->
         Ok([k \in 1..Len(v.value.c) |-> Text(<<v.value.c[k]>>)])
    [] v.t = "dict" -> Ok([k \in 1..Len(KeysOf(v.d)) |-> Str(KeysOf(v.d)[k])])
    [] v.t \in {"null", "int", "bool"} -> Raise("TypeError")
    [] v.t = "enum" /\ v.mixin = "none" -> Raise("TypeError")

\* response.get('results', []) as the for loop / extend walks it.
ResultsOf(response) ==
  IF "results" \notin DOMAIN response.d THEN Ok(<<>>)
  ELSE Iterate(response.d["results"])

\* The records of a response whose results are a list.
Records(response) == ResultsOf(response).val

clean_json(response) ==
  IF response.t # "dict" THEN Raise("AttributeError")
  ELSE IF "results" \notin DOMAIN response.d THEN Ok(response)
  ELSE IF response.d["results"].t = "list"
    THEN Bind(clean_projects(response.d["results"].l), LAMBDA cleaned :
              Ok(SetItem(response, "results", List(cleaned))))
  ELSE IF response.d["results"].t \in {"str", "dict"}
    THEN IF Truthy(response.d["results"]) THEN Raise("AttributeError")
         ELSE Ok(response)
  ELSE Raise("TypeError")

(***************************************************************************)
(* The upstream search endpoint (environment).                             *)
(*                                                                         *)
(* One HTTP exchange ends as a transport exception, or as a status with a  *)
(* JSON body.  srv fixes the upstream's behaviour for a run:               *)
(*   "full": a constant total T, every page full: the records              *)
(*           offset .. min(offset+limit, T)-1;                             *)
(*   "any" : every answer is arbitrary: any total, a page of 0..limit      *)
(*           records, a degenerate record, a record without identifier, or *)
(*           a failure.                                                    *)
(***************************************************************************)
Min(a, b) == IF a < b THEN a ELSE b

\* The raw record the upstream holds at position k of the matches of c.
RawProject(c, k) ==
  Dict([project_num |-> Str(c \o ToString(k)),
        organization |-> Dict([org_name |-> Str("Univ " \o c),
                               org_state |-> Str("MD")])])

\* The records at positions o .. o+n-1.
RawPage(c, o, n) == [j \in 1..n |-> RawProject(c, o + j - 1)]

Body(total, records) ==
  Dict([meta |-> Dict([total |-> Num(total)]), results |-> List(records)])

Http(status, body) == [t |-> "http", status |-> status, body |-> body]
TransportError == [t |-> "exc", e |-> "ConnectionError"]

\* A record that is not a mapping, and one whose organization lacks org_state.
NotAMapping == Str("unexpected")
NoOrgState(c, k) ==
  Dict([project_num |-> Str(c \o ToString(k)),
        organization |-> Dict([org_name |-> Str("Univ " \o c)])])

\* A record that carries no project_num.
NoProjectNum(c) ==
  Dict([organization |-> Dict([org_name |-> Str("Univ " \o c),
                               org_state |-> Str("MD")])])

\* Statuses outside 2xx: informational, redirection, client error, server
\* error, and one past the assigned classes.
OtherStatuses == {100, 301, 404, 503, 600}

\* The exchanges the claims call failed: a transport error, a status outside
\* 2xx (with no body, or with the well-formed page a 200 would carry), no
\* body, a body without meta or without meta.total.
FailedExchanges(payload) ==
  { TransportError,
    Http(500, Null),
    Http(200, Null),
    Http(200, Dict([results |-> List(<<>>)])),
    Http(200, Dict([meta |-> Dict(EmptyDict), results |-> List(<<>>)])) }
  \cup { Http(status, Body(srv.T,
            RawPage(payload.criteria, payload.offset,
                    IF payload.offset >= srv.T THEN 0
                    ELSE Min(payload.limit, srv.T - payload.offset)))) :
          status \in OtherStatuses }

\* An answer whose meta.total is JSON null: the key is there, the count is not.
NullTotalExchange ==
  Http(200, Dict([meta |-> Dict([total |-> Null]), results |-> List(<<>>)]))

DegenerateExchanges(payload) ==
  { Http(200, Body(t, <<r>>)) :
      t \in 0..srv.T,
      r \in {NotAMapping, NoOrgState(payload.criteria, payload.offset)} }

\* A page whose record has no identifier, reported as the only match or as
\* one of srv.T.  Like every page of this upstream it holds no more records
\* than the request allows.
UnidentifiedExchanges(payload) ==
  IF payload.limit >= 1
    THEN { Http(200, Body(t, <<NoProjectNum(payload.criteria)>>)) :
             t \in {1, srv.T} }
    ELSE {}

Exchanges(payload) ==
  IF srv.mode = "full"
    THEN { Http(200, Body(srv.T,
             RawPage(payload.criteria, payload.offset,
                     IF payload.offset >= srv.T THEN 0
                     ELSE Min(payload.limit, srv.T - payload.offset)))) }
    ELSE { Http(200, Body(t, RawPage(payload.criteria, payload.offset, n))) :
             t \in 0..srv.T, n \in 0..payload.limit }
         \cup FailedExchanges(payload) \cup DegenerateExchanges(payload)
         \cup {NullTotalExchange} \cup UnidentifiedExchanges(payload)

(***************************************************************************)
(* Distribution Aggregator: get_project_distributions (utils.py 152-257).  *)
(***************************************************************************)
IsDict(r) == r.t = "dict"

\* A dict or a list cannot be a key of a Counter: hashing it raises.
Hashable(v) == v.t \notin {"dict", "list"}

\* A variant that does not filter: every mapping yields its value.
UnfilteredValues(results, field) ==
  LET kept == SelectSeq(results, LAMBDA r : IsDict(r))
  IN [k \in 1..Len(kept) |-> Get(kept[k], field)]

\* The values a generator "r.get(field) for r in results if isinstance(r,
\* dict) and r.get(field)" yields, in order.
TruthyValues(results, field) ==
  LET kept == SelectSeq(results, LAMBDA r : IsDict(r) /\ Truthy(Get(r, field)))
  IN [k \in 1..Len(kept) |-> Get(kept[k], field)]

\* The values "... if isinstance(r, dict) and r.get(field) is not None" yields.
NotNoneValues(results, field) ==
  LET kept == SelectSeq(results, LAMBDA r : IsDict(r) /\ Get(r, field) # Null)
  IN [k \in 1..Len(kept) |-> Get(kept[k], field)]

\* An int, or a bool (which Python adds and compares as 0 or 1).
IsNumber(v) == v.t \in {"int", "bool"}
NumberOf(v) == IF v.t = "int" THEN v.n ELSE IF v.b THEN 1 ELSE 0

\* Two values are one key of a dict: they are equal, True and 1 (False and
\* 0) included.
SameKey(a, b) ==
  \/ a = b
  \/ IsNumber(a) /\ IsNumber(b) /\ NumberOf(a) = NumberOf(b)

\* collections.Counter over a sequence: each key, as it occurred first, with
\* its number of occurrences.
Counter(values) ==
  IF \E k \in 1..Len(values) : ~Hashable(values[k]) THEN Raise("TypeError")
  ELSE Ok([v \in {values[k] : k \in {n \in 1..Len(values) :
                     \A m \in 1..(n - 1) : ~SameKey(values[m], values[n])}} |->
             Cardinality({k \in 1..Len(values) : SameKey(values[k], v)})])

\* lines 174-177
project_ids_of(results) ==
  LET kept == SelectSeq(results,
                LAMBDA r : IsDict(r) /\ Truthy(Get(r, "project_num")))
  IN [k \in 1..Len(kept) |-> Dict([project_num |-> Get(kept[k], "project_num")])]

\* lines 218-222
active_labels(results) ==
  LET flags == NotNoneValues(results, "is_active")
  IN [k \in 1..Len(flags) |->
        IF Truthy(flags[k]) THEN Str("Active") ELSE Str("Inactive")]

RECURSIVE SumOf(_)
SumOf(values) ==
  IF values = <<>> THEN 0 ELSE NumberOf(Head(values)) + SumOf(Tail(values))

MinOf(values) ==
  CHOOSE m \in {NumberOf(values[k]) : k \in 1..Len(values)} :
    \A k \in 1..Len(values) : m <= NumberOf(values[k])

MaxOf(values) ==
  CHOOSE m \in {NumberOf(values[k]) : k \in 1..Len(values)} :
    \A k \in 1..Len(values) : m >= NumberOf(values[k])

\* A variant that filters the amounts on their truth value.
award_stats_of_truthy(results) ==
  LET award_amounts == TruthyValues(results, "award_amount")
  IN IF award_amounts = <<>>
       THEN Ok([total |-> 0, average |-> [num |-> 0, den |-> 1],
                min |-> 0, max |-> 0, count |-> 0])
     ELSE Ok([total |-> SumOf(award_amounts),
              average |-> [num |-> SumOf(award_amounts),
                           den |-> Len(award_amounts)],
              min |-> MinOf(award_amounts),
              max |-> MaxOf(award_amounts),
              count |-> Len(award_amounts)])

\* lines 225-246.  The average is a true division: it is kept as the exact
\* fraction num/den.
award_stats_of(results) ==
  LET award_amounts == NotNoneValues(results, "award_amount")
  IN IF award_amounts = <<>>
       THEN Ok([total |-> 0, average |-> [num |-> 0, den |-> 1],
                min |-> 0, max |-> 0, count |-> 0])
     ELSE IF \E k \in 1..Len(award_amounts) : ~IsNumber(award_amounts[k])
       THEN Raise("TypeError")
     ELSE Ok([total |-> SumOf(award_amounts),
              average |-> [num |-> SumOf(award_amounts),
                           den |-> Len(award_amounts)],
              min |-> MinOf(award_amounts),
              max |-> MaxOf(award_amounts),
              count |-> Len(award_amounts)])

\* lines 171-257
get_project_distributions(results_set) ==
  IF ~IsDict(results_set) THEN Raise("AttributeError")
  ELSE
  Bind(ResultsOf(results_set), LAMBDA results :
  Bind(Counter(TruthyValues(results, "fiscal_year")), LAMBDA year :
  Bind(Counter(TruthyValues(results, "agency_ic_admin")), LAMBDA ic :
  Bind(Counter(TruthyValues(results, "activity_code")), LAMBDA act :
  Bind(Counter(TruthyValues(results, "org_name")), LAMBDA org :
  Bind(Counter(TruthyValues(results, "funding_mechanism")), LAMBDA mech :
  Bind(Counter(active_labels(results)), LAMBDA active :
  Bind(award_stats_of(results), LAMBDA stats :
  Ok([project_ids |-> project_ids_of(results),
      year_distribution |-> year,
      institute_distribution |-> ic,
      activity_code_distribution |-> act,
      organization_distribution |-> org,
      funding_mechanism_distribution |-> mech,
      active_status_distribution |-> active,
      award_amount_stats |-> stats])))))))))

(***************************************************************************)
(* Tool Surface (tools.py): what each tool does with what its pager call   *)
(* returned.                                                               *)
(***************************************************************************)
Tools == {"search_projects", "get_search_summary", "find_project_ids",
          "get_project_information"}

\* tools.py 47, 108, 163, 210: the pager entry point each tool awaits
EntryPointOf(t) ==
  IF t \in {"search_projects", "find_project_ids"}
    THEN "get_initial_response" ELSE "get_all_responses"

MostCommonShown == 15

\* The keys of Counter(values) in the order of their insertion: each value
\* where it occurs first.  A Counter is held as its table of counts; this is
\* the order its items() and most_common() walk.
RECURSIVE inserted(_, _)
inserted(values, seen) ==
  IF values = <<>> THEN <<>>
  ELSE IF \E k \in 1..Len(seen) : SameKey(seen[k], Head(values))
    THEN inserted(Tail(values), seen)
  ELSE <<Head(values)>> \o inserted(Tail(values), seen \o <<Head(values)>>)

\* The keys of the Counter over a field of the results, in insertion order.
keys_of(results_set, field) ==
  inserted(TruthyValues(ResultsOf(results_set).val, field), <<>>)

\* dict(counter.most_common(n)) on a Counter whose keys were inserted in the
\* order keys: the sort by count is stable, so among equal counts the key
\* inserted first comes first; the first n are kept.
most_common(counter, keys, n) ==
  LET before(p) == {q \in 1..Len(keys) :
                      \/ counter[keys[q]] > counter[keys[p]]
                      \/ counter[keys[q]] = counter[keys[p]] /\ q < p}
      kept == {keys[p] : p \in {q \in 1..Len(keys) : Cardinality(before(q)) < n}}
  IN [v \in kept |-> counter[v]]

\* dict(sorted(counter.items(), reverse=True)): the items are compared on
\* their keys, which differ; a < b is defined for two numbers and for two
\* strings, any other pair of keys raises TypeError.  The result is the same
\* mapping.
sorted_items(counter) ==
  LET Comparable(a, b) ==
        \/ IsNumber(a) /\ IsNumber(b)
        \/ a.t \in {"str", "text"} /\ b.t \in {"str", "text"}
  IN IF \A a, b \in DOMAIN counter : a = b \/ Comparable(a, b)
       THEN Ok(counter) ELSE Raise("TypeError")

\* tools.py 53-64
search_projects(total_projects, results_set) ==
  Bind(get_project_distributions(results_set), LAMBDA distributions :
  Bind(sorted_items(distributions.year_distribution), LAMBDA year :
  Ok([total_projects |-> total_projects,
      year_distribution |-> year,
      institute_distribution |->
        most_common(distributions.institute_distribution,
                    keys_of(results_set, "agency_ic_admin"), MostCommonShown),
      activity_code_distribution |->
        most_common(distributions.activity_code_distribution,
                    keys_of(results_set, "activity_code"), MostCommonShown),
      organization_distribution |->
        most_common(distributions.organization_distribution,
                    keys_of(results_set, "org_name"), MostCommonShown),
      funding_mechanism_distribution |->
        distributions.funding_mechanism_distribution,
      active_status_distribution |-> distributions.active_status_distribution,
      award_amount_stats |-> distributions.award_amount_stats])))

\* tools.py 113-125
get_search_summary(results_set) ==
  Bind(get_project_distributions(results_set), LAMBDA distributions :
  Bind(sorted_items(distributions.year_distribution), LAMBDA year :
  Ok([total_projects |-> Num(Len(distributions.project_ids)),
      year_distribution |-> year,
      institute_distribution |->
        most_common(distributions.institute_distribution,
                    keys_of(results_set, "agency_ic_admin"), MostCommonShown),
      activity_code_distribution |->
        most_common(distributions.activity_code_distribution,
                    keys_of(results_set, "activity_code"), MostCommonShown),
      organization_distribution |->
        most_common(distributions.organization_distribution,
                    keys_of(results_set, "org_name"), MostCommonShown),
      funding_mechanism_distribution |->
        distributions.funding_mechanism_distribution,
      active_status_distribution |-> distributions.active_status_distribution,
      award_amount_stats |-> distributions.award_amount_stats])))

\* tools.py 179: total_projects > len(project_ids); None > int raises
has_more_results(total_projects, project_ids) ==
  IF IsNumber(total_projects)
    THEN Ok(Bool(NumberOf(total_projects) > Len(project_ids)))
    ELSE Raise("TypeError")

\* tools.py 169-180
find_project_ids(total_projects, results_set) ==
  Bind(get_project_distributions(results_set), LAMBDA distributions :
  Bind(sorted_items(distributions.year_distribution), LAMBDA year :
  Bind(has_more_results(total_projects, distributions.project_ids), LAMBDA more :
  Ok([total_projects |-> total_projects,
      returned_projects |-> Num(Len(distributions.project_ids)),
      project_ids |-> distributions.project_ids,
      year_distribution |-> year,
      institute_distribution |->
        most_common(distributions.institute_distribution,
                    keys_of(results_set, "agency_ic_admin"), MostCommonShown),
      activity_code_distribution |->
        most_common(distributions.activity_code_distribution,
                    keys_of(results_set, "activity_code"), MostCommonShown),
      has_more_results |-> more]))))

\* The rest of a tool's body, once its pager call has returned.
tool_return(t, total_projects, results_set) ==
  CASE t = "search_projects" -> search_projects(total_projects, results_set)
    [] t = "get_search_summary" -> get_search_summary(results_set)
    [] t = "find_project_ids" -> find_project_ids(total_projects, results_set)
    [] t = "get_project_information" -> Ok(results_set)

(***************************************************************************)
(* Pager (utils.py 54-150).                                                *)
(***************************************************************************)
\* lines 68-81: a RequestException (transport, or raise_for_status on a
\* 4xx/5xx) is re-raised as Exception; otherwise the decoded body.
search_nih_reporter(exchange) ==
  IF exchange.t = "exc" THEN Raise("Exception")
  ELSE IF exchange.status >= 400 /\ exchange.status < 600 THEN Raise("Exception")
  ELSE Ok(exchange.body)

\* lines 96-103.  include_fields is handed to the upstream as the caller
\* gave it and read nowhere else; it is left out of the payload here.
Payload(c, lim, off) ==
  [criteria |-> c, offset |-> off, limit |-> lim,
   sort_field |-> "project_start_date", sort_order |-> "desc"]

\* A variant with one accumulator kept across calls (a mutable default).
NewAccumulatorShared(meta) ==
  IF \E j \in Invocations : all_results[j] # Null
    THEN all_results[CHOOSE j \in Invocations : all_results[j] # Null]
    ELSE Dict([meta |-> meta, results |-> List(<<>>)])

\* lines 115-119: the accumulator of a first call
NewAccumulator(meta) == Dict([meta |-> meta, results |-> List(<<>>)])

\* A variant that puts the new page in front.
ExtendPrepend(acc, page) == page \o acc

\* line 122: list.extend
Extend(acc, page) == acc \o page

\* lines 112-124, on the normalized response
accumulate(response, acc) ==
  Bind(Subscript(response, "meta"), LAMBDA meta :
  Bind(Subscript(meta, "total"), LAMBDA total :
  Bind(ResultsOf(response), LAMBDA page :
  Ok([total |-> total,
      all_results |->
        IF acc = Null
          THEN SetItem(NewAccumulator(meta), "results",
                 List(Extend(NewAccumulator(meta).d["results"].l, page)))
          ELSE SetItem(acc, "results",
                 List(Extend(acc.d["results"].l, page)))]))))

\* lines 107-110
check_and_clean(response) ==
  IF response = Null THEN Raise("Exception") ELSE clean_json(response)

\* lines 105-124: paged_query from the answer of its request on.
\* Returns (total_responses, all_results), or raises.
paged_query(exchange, acc) ==
  Bind(Bind(search_nih_reporter(exchange), check_and_clean),
       LAMBDA response : accumulate(response, acc))

\* A variant of the loop test that is off by one.
WhileCondInclusive(off, lim, total) ==
  IF IsNumber(total) THEN Ok(off + lim <= NumberOf(total))
  ELSE Raise("TypeError")

\* line 142: the loop test; a bool total compares as 0 or 1, comparing an
\* int with anything else raises.
WhileCond(off, lim, total) ==
  IF IsNumber(total) THEN Ok(off + lim < NumberOf(total))
  ELSE Raise("TypeError")

\* line 143
NextOffset(off, lim) == off + lim

\* sent and answers are records kept for the properties, with no
\* counterpart in the code, and refuse no step: they hold the first
\* MaxRequests requests and answers of a fetch.  With a positive page size a
\* fetch makes at most MaxTotal requests, so they hold all of them.
MaxRequests == MaxTotal + 1

Record(history, x) ==
  IF Len(history) < MaxRequests THEN Append(history, x) ELSE history


Request(i, payload) == [inv |-> i, payload |-> payload]

\* The call raises: the exception propagates to the caller of the tool, and
\* the accumulator, a local of the call, is lost with its frame.
Fail(i, exc) ==
  /\ pc' = [pc EXCEPT ![i] = "failed"]
  /\ result' = [result EXCEPT ![i] = Raise(exc)]
  /\ returned' = [returned EXCEPT ![i] = Raise(exc)]
  /\ UNCHANGED <<offset, total_responses, all_results, sent>>

\* lines 135-136 / 128-129: offset = 0 and the first paged_query, up to the
\* await of its request.
FirstRequest(i, lim, off) ==
  /\ pc[i] = "idle"
  /\ pc' = [pc EXCEPT ![i] = "waiting"]
  /\ offset' = [offset EXCEPT ![i] = off]
  /\ inflight' = inflight \cup {Request(i, Payload(search_params[i], lim, off))}
  /\ sent' = [sent EXCEPT ![i] = <<Payload(search_params[i], lim, off)>>]
  /\ UNCHANGED <<srv, tool, fn, search_params, limit, total_responses,
                 all_results, result, returned, answers, harnessVars>>

\* A variant that requests the first two pages at once.
call_get_all_responses_fanout(i) ==
  /\ fn[i] = "get_all_responses"
  /\ pc[i] = "idle"
  /\ pc' = [pc EXCEPT ![i] = "waiting"]
  /\ offset' = [offset EXCEPT ![i] = limit[i]]
  /\ inflight' = inflight \cup
       {Request(i, Payload(search_params[i], limit[i], 0)),
        Request(i, Payload(search_params[i], limit[i], limit[i]))}
  /\ sent' = [sent EXCEPT ![i] =
       <<Payload(search_params[i], limit[i], 0),
         Payload(search_params[i], limit[i], limit[i])>>]
  /\ UNCHANGED <<srv, tool, fn, search_params, limit, total_responses,
                 all_results, result, returned, answers, harnessVars>>

\* get_all_responses is called (lines 133-136).
call_get_all_responses(i) ==
  /\ fn[i] = "get_all_responses"
  /\ FirstRequest(i, limit[i], 0)

\* A variant that passes limit and offset in the wrong order.
call_get_initial_response_swapped(i) ==
  /\ fn[i] = "get_initial_response"
  /\ FirstRequest(i, 0, limit[i])

\* get_initial_response is called (lines 126-129).
call_get_initial_response(i) ==
  /\ fn[i] = "get_initial_response"
  /\ FirstRequest(i, limit[i], 0)

\* lines 136-150: the answer of the outstanding request arrives; paged_query
\* finishes, and the loop either sends the next request or returns.
resume_get_all_responses(i) ==
  /\ fn[i] = "get_all_responses"
  /\ pc[i] = "waiting"
  /\ \E req \in {r \in inflight : r.inv = i} :
     \E exchange \in Exchanges(req.payload) :
     \E r \in {paged_query(exchange, all_results[i])} :
          /\ UNCHANGED <<srv, tool, fn, search_params, limit, harnessVars>>
          /\ answers' = [answers EXCEPT ![i] = Record(@, exchange)]
          /\ IF ~r.ok
               THEN /\ Fail(i, r.exc)
                    /\ inflight' = inflight \ {req}
               ELSE \E cond \in {WhileCond(offset[i], limit[i], r.val.total)} :
                       /\ total_responses' =
                            [total_responses EXCEPT ![i] = r.val.total]
                       /\ all_results' =
                            [all_results EXCEPT ![i] = r.val.all_results]
                       /\ IF ~cond.ok
                            THEN /\ pc' = [pc EXCEPT ![i] = "failed"]
                                 /\ result' = [result EXCEPT ![i] = Raise(cond.exc)]
                                 /\ returned' = [returned EXCEPT
                                      ![i] = Raise(cond.exc)]
                                 /\ inflight' = inflight \ {req}
                                 /\ UNCHANGED <<offset, sent>>
                          ELSE IF cond.val
                            THEN /\ offset' = [offset EXCEPT
                                      ![i] = NextOffset(offset[i], limit[i])]
                                 /\ inflight' = (inflight \ {req}) \cup
                                      {Request(i, Payload(search_params[i], limit[i],
                                          NextOffset(offset[i], limit[i])))}
                                 /\ sent' = [sent EXCEPT ![i] =
                                      Record(@, Payload(search_params[i], limit[i],
                                          NextOffset(offset[i], limit[i])))]
                                 /\ UNCHANGED <<pc, result, returned>>
                          ELSE /\ pc' = [pc EXCEPT ![i] = "done"]
                               /\ result' = [result EXCEPT
                                    ![i] = Ok(r.val.all_results)]
                               /\ returned' = [returned EXCEPT
                                    ![i] = tool_return(tool[i], r.val.total,
                                                       r.val.all_results)]
                               /\ inflight' = inflight \ {req}
                               /\ UNCHANGED <<offset, sent>>

\* lines 129-131: the answer arrives; get_initial_response returns
\* (total_responses, all_results).
resume_get_initial_response(i) ==
  /\ fn[i] = "get_initial_response"
  /\ pc[i] = "waiting"
  /\ \E req \in {r \in inflight : r.inv = i} :
     \E exchange \in Exchanges(req.payload) :
     \E r \in {paged_query(exchange, Null)} :
          /\ UNCHANGED <<srv, tool, fn, search_params, limit, harnessVars>>
          /\ answers' = [answers EXCEPT ![i] = Record(@, exchange)]
          /\ inflight' = inflight \ {req}
          /\ IF ~r.ok
               THEN Fail(i, r.exc)
               ELSE /\ total_responses' =
                         [total_responses EXCEPT ![i] = r.val.total]
                    /\ all_results' =
                         [all_results EXCEPT ![i] = r.val.all_results]
                    /\ pc' = [pc EXCEPT ![i] = "done"]
                    /\ result' = [result EXCEPT ![i] =
                         Ok([total_responses |-> r.val.total,
                             all_results |-> r.val.all_results])]
                    /\ returned' = [returned EXCEPT
                         ![i] = tool_return(tool[i], r.val.total,
                                            r.val.all_results)]
                    /\ UNCHANGED <<offset, sent>>

(***************************************************************************)
(* Specifications of the pager.                                            *)
(*   Spec    : one tool invocation, against every upstream behaviour.      *)
(*   SpecConc: two concurrent invocations, interleaved at their awaits.    *)
(***************************************************************************)
Upstreams(maxTotal) ==
  {[mode |-> "any", T |-> maxTotal]}
    \cup {[mode |-> "full", T |-> t] : t \in 0..maxTotal}

EntryPoints == {"get_all_responses", "get_initial_response"}

HarnessIdle ==
  /\ raw = Null /\ once = Null /\ twice = Null /\ dist = Null
  /\ phase = "off"
  /\ args = Null /\ params = Null /\ criteria = Null

\* The invocations in callers are about to be called with the arguments
\* drawn here; the others are never called.
PagerInitOver(callers, maxTotal, limits) ==
  /\ srv \in Upstreams(maxTotal)
  /\ pc = [i \in Invocations |-> IF i \in callers THEN "idle" ELSE "absent"]
  /\ tool \in [Invocations -> Tools]
  /\ fn = [i \in Invocations |-> EntryPointOf(tool[i])]
  /\ search_params \in [Invocations -> Criteria]
  /\ limit \in [Invocations -> limits]
  /\ \A i \in Invocations \ callers :
       tool[i] = "get_project_information" /\ search_params[i] = "A"
         /\ limit[i] = 1
  /\ offset = [i \in Invocations |-> 0]
  /\ total_responses = [i \in Invocations |-> Null]
  /\ all_results = [i \in Invocations |-> Null]
  /\ result = [i \in Invocations |-> Null]
  /\ returned = [i \in Invocations |-> Null]
  /\ inflight = {}
  /\ sent = [i \in Invocations |-> <<>>]
  /\ answers = [i \in Invocations |-> <<>>]
  /\ HarnessIdle

\* The page sizes a tool passes are positive.
PagerInit(callers, maxTotal, maxLimit) ==
  PagerInitOver(callers, maxTotal, 1..maxLimit)

Init == PagerInit({1}, MaxTotal, MaxLimit)

Next ==
  \E i \in Invocations :
    \/ call_get_all_responses(i)
    \/ call_get_initial_response(i)
    \/ resume_get_all_responses(i)
    \/ resume_get_initial_response(i)

Spec == Init /\ [][Next]_vars

\* Two concurrent invocations, each searching its own criteria, of a tool
\* that previews or of a tool that fetches exhaustively.
InitConc ==
  /\ PagerInit(Invocations, ConcMaxTotal, ConcMaxLimit)
  /\ search_params = [i \in Invocations |-> IF i = 1 THEN "A" ELSE "B"]
  /\ tool \in [Invocations -> {"find_project_ids", "get_search_summary"}]

SpecConc == InitConc /\ [][Next]_vars

\* One invocation, with a page size from zero up, against an upstream that
\* answers every request.  get_all_responses accepts a negative page size as
\* well (utils.py 133): its offset then decreases without bound, which no
\* finite state space holds, and it is not drawn here.
DegenerateLimits == {0}

InitAnyLimit ==
  /\ PagerInitOver({1}, LoopMaxTotal, DegenerateLimits \cup 1..MaxLimit)
  /\ srv.mode = "any"
  /\ tool[1] \in {"find_project_ids", "get_project_information"}
  /\ search_params = [i \in Invocations |-> "A"]

SpecAnyLimit == InitAnyLimit /\ [][Next]_vars /\ WF_vars(Next)

(***************************************************************************)
(* The Normalizer and the Aggregator on their own (SpecNormalizer): a raw  *)
(* page is drawn, clean_json is applied to it and then to its own output,  *)
(* and get_project_distributions to the raw and to the normalized page.    *)
(***************************************************************************)
MaxRecords == 2    \* the most records of a drawn page

SubObjectShapes == {"absent", "full", "degenerate"}

\* The three sub-objects of a raw record, each absent, well-formed, or
\* lacking the key clean_json reads from it.
Organization(shape) ==
  IF shape = "full" THEN Dict([org_name |-> Str("Univ A"), org_state |-> Str("MD")])
  ELSE Dict([org_name |-> Str("Univ A")])

AgencyIcAdmin(shape) ==
  IF shape = "full" THEN Dict([abbreviation |-> Str("NCI"), code |-> Str("CA")])
  ELSE Dict([code |-> Str("CA")])

PrincipalInvestigators(shape) ==
  IF shape = "full"
    THEN List(<<Dict([full_name |-> Str("Ada"), profile_id |-> Num(1)]),
                Dict([full_name |-> Str("Bob"), profile_id |-> Num(2)])>>)
    ELSE List(<<Dict([profile_id |-> Num(1)])>>)

With(record, key, shape, value) ==
  IF shape = "absent" THEN record ELSE SetItem(record, key, value)

RawRecord(o, a, p) ==
  With(With(With(Dict([project_num |-> Str("P1"), fiscal_year |-> Num(2022)]),
                 "organization", o, Organization(o)),
            "agency_ic_admin", a, AgencyIcAdmin(a)),
       "principal_investigators", p, PrincipalInvestigators(p))

RawRecords ==
  { RawRecord(o, a, p) :
      o \in SubObjectShapes, a \in SubObjectShapes, p \in SubObjectShapes }
    \cup {NotAMapping}

RECURSIVE SeqsUpTo(_, _)
SeqsUpTo(S, n) ==
  IF n = 0 THEN {<<>>}
  ELSE SeqsUpTo(S, n - 1) \cup {Append(q, x) : q \in SeqsUpTo(S, n - 1), x \in S}

RawPages == { Body(Len(q), q) : q \in SeqsUpTo(RawRecords, MaxRecords) }

\* clean_json is applied to the drawn page.
normalize ==
  /\ phase = "input"
  /\ once' = clean_json(raw)
  /\ phase' = "cleaned"
  /\ UNCHANGED <<raw, twice, dist, pagerVars, criteriaVars>>

\* clean_json is applied to its own output.
normalize_again ==
  /\ phase = "cleaned" /\ once.ok
  /\ twice' = clean_json(once.val)
  /\ phase' = "recleaned"
  /\ UNCHANGED <<raw, once, dist, pagerVars, criteriaVars>>

\* get_project_distributions is applied to the normalized page, as the tools
\* do (tools.py 53, 107, 169).
aggregate ==
  /\ phase = "cleaned" /\ once.ok
  /\ dist' = get_project_distributions(once.val)
  /\ phase' = "aggregated"
  /\ UNCHANGED <<raw, once, twice, pagerVars, criteriaVars>>

\* get_project_distributions is applied to the drawn page as it is.
aggregate_raw ==
  /\ phase = "input"
  /\ dist' = get_project_distributions(raw)
  /\ phase' = "aggregated_raw"
  /\ UNCHANGED <<raw, once, twice, pagerVars, criteriaVars>>

InitNormalizer ==
  /\ srv = [mode |-> "full", T |-> 0]
  /\ pc = [i \in Invocations |-> "absent"]
  /\ tool = [i \in Invocations |-> "get_project_information"]
  /\ fn = [i \in Invocations |-> "get_all_responses"]
  /\ search_params = [i \in Invocations |-> "A"]
  /\ limit = [i \in Invocations |-> 1]
  /\ offset = [i \in Invocations |-> 0]
  /\ total_responses = [i \in Invocations |-> Null]
  /\ all_results = [i \in Invocations |-> Null]
  /\ result = [i \in Invocations |-> Null]
  /\ returned = [i \in Invocations |-> Null]
  /\ inflight = {}
  /\ sent = [i \in Invocations |-> <<>>]
  /\ answers = [i \in Invocations |-> <<>>]
  /\ raw \in RawPages
  /\ once = Null /\ twice = Null /\ dist = Null
  /\ phase = "input"
  /\ args = Null /\ params = Null /\ criteria = Null

NextNormalizer == normalize \/ normalize_again \/ aggregate \/ aggregate_raw

SpecNormalizer == InitNormalizer /\ [][NextNormalizer]_vars

(***************************************************************************)
(* The Aggregator on flat records (SpecAggregator): a page of records as   *)
(* the Normalizer leaves them is drawn, and the same steps are applied.    *)
(***************************************************************************)
MaxProjects == 4   \* the most records of a drawn page of flat records

FlatRecord(num, year, code, active, amount) ==
  Dict([project_num |-> num, fiscal_year |-> year, agency_ic_admin |-> code,
        activity_code |-> code, org_name |-> code, funding_mechanism |-> code,
        is_active |-> active, award_amount |-> amount])

\* Two projects; a second record of the first project; a record whose fields
\* are all null, one without any field, one whose fields are empty or zero;
\* and a record that is not a mapping.
FlatRecords ==
  { FlatRecord(Str("P1"), Num(2022), Str("X"), Bool(TRUE), Num(100)),
    FlatRecord(Str("P2"), Num(2023), Str("Y"), Bool(FALSE), Num(200)),
    FlatRecord(Str("P1"), Num(2022), Str("Y"), Bool(TRUE), Num(300)),
    FlatRecord(Null, Null, Null, Null, Null),
    Dict(EmptyDict),
    FlatRecord(Str(""), Num(0), Str(""), Bool(FALSE), Num(0)),
    NotAMapping }

FlatPages == { Body(Len(q), q) : q \in SeqsUpTo(FlatRecords, MaxProjects) }

InitAggregator ==
  /\ srv = [mode |-> "full", T |-> 0]
  /\ pc = [i \in Invocations |-> "absent"]
  /\ tool = [i \in Invocations |-> "get_project_information"]
  /\ fn = [i \in Invocations |-> "get_all_responses"]
  /\ search_params = [i \in Invocations |-> "A"]
  /\ limit = [i \in Invocations |-> 1]
  /\ offset = [i \in Invocations |-> 0]
  /\ total_responses = [i \in Invocations |-> Null]
  /\ all_results = [i \in Invocations |-> Null]
  /\ result = [i \in Invocations |-> Null]
  /\ returned = [i \in Invocations |-> Null]
  /\ inflight = {}
  /\ sent = [i \in Invocations |-> <<>>]
  /\ answers = [i \in Invocations |-> <<>>]
  /\ raw \in FlatPages
  /\ once = Null /\ twice = Null /\ dist = Null
  /\ phase = "input"
  /\ args = Null /\ params = Null /\ criteria = Null

SpecAggregator == InitAggregator /\ [][NextNormalizer]_vars

(***************************************************************************)
(* Criteria Model (models.py).                                             *)
(*                                                                         *)
(* A str whose characters matter (it is trimmed, re-cased, parsed or       *)
(* joined) is held as the sequence of its characters:                      *)
(* [t |-> "text", c |-> <<..>>].  A member of an Enum class is             *)
(* [t |-> "enum", cls |-> <class>, mixin |-> "str" or "none",              *)
(*  value |-> <its value>]: a member of a class declared (str, Enum) is    *)
(* itself a str, a member of a plain Enum is not.  The value of a member   *)
(* is None, a bool, an int or a str.  An instance of a pydantic model is   *)
(* [t |-> "model", cls |-> <class>, f |-> <its fields>].                   *)
(*                                                                         *)
(* Characters is the character set of the model: the characters up to      *)
(* U+00FF that a string constant can hold.  The case mappings are those of *)
(* str.upper and str.lower on that set; the capitals of U+00B5 and U+00FF  *)
(* lie outside it, so upper is not defined on these two.                   *)
(***************************************************************************)
Member(cls, mixin, value) ==
  [t |-> "enum", cls |-> cls, mixin |-> mixin, value |-> value]
Model(cls, f) == [t |-> "model", cls |-> cls, f |-> f]

\* The Enum classes of models.py that are declared (str, Enum); NIHAgency is
\* a plain Enum.
StrEnums ==
  {"SearchOperator", "SearchField", "StateCode", "FundingMechanism",
   "IncludeField"}

\* A member of an Enum class of models.py.
EnumMember(cls, value) ==
  Member(cls, IF cls \in StrEnums THEN "str" ELSE "none", value)

UpperCase ==
  <<"A", "B", "C", "D", "E", "F", "G", "H", "I", "J", "K", "L", "M", "N",
    "O", "P", "Q", "R", "S", "T", "U", "V", "W", "X", "Y", "Z", "À", "Á",
    "Â", "Ã", "Ä", "Å", "Æ", "Ç", "È", "É", "Ê", "Ë", "Ì", "Í", "Î", "Ï",
    "Ð", "Ñ", "Ò", "Ó", "Ô", "Õ", "Ö", "Ø", "Ù", "Ú", "Û", "Ü", "Ý", "Þ">>
LowerCase ==
  <<"a", "b", "c", "d", "e", "f", "g", "h", "i", "j", "k", "l", "m", "n",
    "o", "p", "q", "r", "s", "t", "u", "v", "w", "x", "y", "z", "à", "á",
    "â", "ã", "ä", "å", "æ", "ç", "è", "é", "ê", "ë", "ì", "í", "î", "ï",
    "ð", "ñ", "ò", "ó", "ô", "õ", "ö", "ø", "ù", "ú", "û", "ü", "ý", "þ">>
Digits == <<"0", "1", "2", "3", "4", "5", "6", "7", "8", "9">>
Punctuation ==
  {"!", "\"", "#", "$", "%", "&", "'", "(", ")", "*", "+", ",", "-", ".",
   "/", ":", ";", "<", "=", ">", "?", "@", "[", "\\", "]", "^", "_", "{",
   "|", "}", "~"}
Symbols ==
  {"¡", "¢", "£", "¤", "¥", "¦", "§", "¨", "©", "ª", "«", "¬", "­", "®",
   "¯", "°", "±", "²", "³", "´", "¶", "·", "¸", "¹", "º", "»", "¼", "½",
   "¾", "¿", "×", "÷"}
Whitespace ==
  {"\t", "\n", "", "\f", "\r", "", "", "", "", " ", "", " "}

\* lower-case letters without a capital in the character set
NoCapital == {"µ", "ÿ"}

Range(seq) == { seq[k] : k \in 1..Len(seq) }

Characters ==
  Range(UpperCase) \cup Range(LowerCase) \cup Range(Digits)
    \cup Punctuation \cup Symbols \cup Whitespace \cup NoCapital \cup {"ß"}

IndexIn(alphabet, ch) == CHOOSE k \in 1..Len(alphabet) : alphabet[k] = ch
IsIn(alphabet, ch) == \E k \in 1..Len(alphabet) : alphabet[k] = ch

\* a character without case is left as it is
Unchanged == [ch \in Characters \ NoCapital |-> <<ch>>]

\* str.upper and str.lower, of one character
upper_of(ch) ==
  IF IsIn(LowerCase, ch) THEN <<UpperCase[IndexIn(LowerCase, ch)]>>
  ELSE IF ch = "ß" THEN <<"S", "S">>
  ELSE Unchanged[ch]
lower_of(ch) ==
  IF IsIn(UpperCase, ch) THEN <<LowerCase[IndexIn(UpperCase, ch)]>>
  ELSE IF ch \in NoCapital THEN <<ch>>
  ELSE Unchanged[ch]

\* str.upper and str.lower
RECURSIVE upper(_)
upper(c) == IF c = <<>> THEN <<>> ELSE upper_of(Head(c)) \o upper(Tail(c))
RECURSIVE lower(_)
lower(c) == IF c = <<>> THEN <<>> ELSE lower_of(Head(c)) \o lower(Tail(c))

\* str.strip: whitespace is removed at both ends
RECURSIVE lstrip(_)
lstrip(c) == IF c # <<>> /\ Head(c) \in Whitespace THEN lstrip(Tail(c)) ELSE c
RECURSIVE rstrip(_)
rstrip(c) ==
  IF c # <<>> /\ c[Len(c)] \in Whitespace
    THEN rstrip(SubSeq(c, 1, Len(c) - 1)) ELSE c
strip(c) == rstrip(lstrip(c))

\* sep.join(parts)
RECURSIVE join(_, _)
join(sep, parts) ==
  IF parts = <<>> THEN <<>>
  ELSE IF Len(parts) = 1 THEN parts[1]
  ELSE parts[1] \o sep \o join(sep, Tail(parts))

\* isinstance(v, str): a str, or a member of a (str, Enum) class
IsStr(v) == v.t \in {"str", "text"} \/ (v.t = "enum" /\ v.mixin = "str")

\* the characters of a str
RECURSIVE CharsOf(_)
CharsOf(v) ==
  CASE v.t = "text" -> v.c
    [] v.t = "str" -> [k \in 1..Len(v.s) |-> SubSeq(v.s, k, k)]
    [] v.t = "enum" -> CharsOf(v.value)

\* the decimal digits of a natural number
RECURSIVE DecimalOf(_)
DecimalOf(n) ==
  IF n < 10 THEN <<Digits[n + 1]>>
  ELSE DecimalOf(n \div 10) \o <<Digits[(n % 10) + 1]>>

\* str(v), for None, a bool, an int or a str
str(v) ==
  CASE v.t = "null" -> <<"N", "o", "n", "e">>
    [] v.t = "bool" -> IF v.b THEN <<"T", "r", "u", "e">>
                              ELSE <<"F", "a", "l", "s", "e">>
    [] v.t = "int" -> IF v.n < 0 THEN <<"-">> \o DecimalOf(-v.n)
                                 ELSE DecimalOf(v.n)
    [] v.t \in {"str", "text"} -> CharsOf(v)

\* The members of the enumerated vocabularies, by value.
SearchFieldValues ==
  { <<"p", "r", "o", "j", "e", "c", "t", "t", "i", "t", "l", "e">>,
    <<"t", "e", "r", "m", "s">>,
    <<"a", "b", "s", "t", "r", "a", "c", "t">> }
SearchOperatorValues ==
  { <<"a", "l", "l">>, <<"o", "r">>, <<"a", "n", "d">>,
    <<"a", "d", "v", "a", "n", "c", "e", "d">> }
NIHAgencyValues ==
  { <<"C", "L", "C">>, <<"C", "S", "R">>, <<"C", "I", "T">>,
    <<"F", "I", "C">>, <<"N", "C", "A", "T", "S">>,
    <<"N", "C", "C", "I", "H">>, <<"N", "C", "I">>, <<"N", "C", "R", "R">>,
    <<"N", "E", "I">>, <<"N", "H", "G", "R", "I">>,
    <<"N", "H", "L", "B", "I">>, <<"N", "I", "A">>,
    <<"N", "I", "A", "A", "A">>, <<"N", "I", "A", "I", "D">>,
    <<"N", "I", "A", "M", "S">>, <<"N", "I", "B", "I", "B">>,
    <<"N", "I", "C", "H", "D">>, <<"N", "I", "D", "A">>,
    <<"N", "I", "D", "C", "D">>, <<"N", "I", "D", "C", "R">>,
    <<"N", "I", "D", "D", "K">>, <<"N", "I", "E", "H", "S">>,
    <<"N", "I", "G", "M", "S">>, <<"N", "I", "H">>, <<"N", "I", "M", "H">>,
    <<"N", "I", "M", "H", "D">>, <<"N", "I", "N", "D", "S">>,
    <<"N", "I", "N", "R">>, <<"N", "L", "M">>, <<"O", "D">> }
StateCodeValues ==
  { <<"A", "L">>, <<"A", "K">>, <<"A", "Z">>, <<"A", "R">>, <<"C", "A">>,
    <<"C", "O">>, <<"C", "T">>, <<"D", "E">>, <<"F", "L">>, <<"G", "A">>,
    <<"H", "I">>, <<"I", "D">>, <<"I", "L">>, <<"I", "N">>, <<"I", "A">>,
    <<"K", "S">>, <<"K", "Y">>, <<"L", "A">>, <<"M", "E">>, <<"M", "D">>,
    <<"M", "A">>, <<"M", "I">>, <<"M", "N">>, <<"M", "S">>, <<"M", "O">>,
    <<"M", "T">>, <<"N", "E">>, <<"N", "V">>, <<"N", "H">>, <<"N", "J">>,
    <<"N", "M">>, <<"N", "Y">>, <<"N", "C">>, <<"N", "D">>, <<"O", "H">>,
    <<"O", "K">>, <<"O", "R">>, <<"P", "A">>, <<"R", "I">>, <<"S", "C">>,
    <<"S", "D">>, <<"T", "N">>, <<"T", "X">>, <<"U", "T">>, <<"V", "T">>,
    <<"V", "A">>, <<"W", "A">>, <<"W", "V">>, <<"W", "I">>, <<"W", "Y">>,
    <<"D", "C">>, <<"P", "R">>, <<"V", "I">>, <<"G", "U">>, <<"A", "S">>,
    <<"M", "P">>, <<"F", "M">>, <<"M", "H">>, <<"P", "W">> }
FundingMechanismValues ==
  { <<"R", "P">>, <<"S", "B">>, <<"R", "C">>, <<"O", "R">>, <<"T", "R">>,
    <<"T", "I">>, <<"C", "O">>, <<"N", "S", "R", "D", "C">>,
    <<"S", "R", "D", "C">>, <<"I", "A", "A">>, <<"I", "M">>,
    <<"O", "t", "h", "e", "r">> }

SearchField(value) == EnumMember("SearchField", Text(value))
PROJECT_TITLE ==
  SearchField(<<"p", "r", "o", "j", "e", "c", "t", "t", "i", "t", "l", "e">>)
ABSTRACT == SearchField(<<"a", "b", "s", "t", "r", "a", "c", "t">>)
TERMS == SearchField(<<"t", "e", "r", "m", "s">>)
AND == EnumMember("SearchOperator", Text(<<"a", "n", "d">>))
NIH == EnumMember("NIHAgency", Text(<<"N", "I", "H">>))

\* the values of the members of an Enum class a field is declared with
ValuesOf(cls) ==
  CASE cls = "SearchField" -> SearchFieldValues
    [] cls = "SearchOperator" -> SearchOperatorValues
    [] cls = "NIHAgency" -> NIHAgencyValues
    [] cls = "StateCode" -> StateCodeValues
    [] cls = "FundingMechanism" -> FundingMechanismValues

ValidationError == Raise("ValidationError")

\* pydantic's validation of an input against the Enum class cls: a member of
\* the class; a str equal to the value of a member (a member of another
\* (str, Enum) class is such a str); and, when cls is itself a (str, Enum),
\* a member of a plain Enum whose value is such a str.
validate_enum(cls, v) ==
  IF v.t = "enum" /\ v.cls = cls THEN Ok(v)
  ELSE IF IsStr(v) /\ CharsOf(v) \in ValuesOf(cls)
    THEN Ok(EnumMember(cls, Text(CharsOf(v))))
  ELSE IF cls \in StrEnums /\ v.t = "enum" /\ IsStr(v.value)
            /\ CharsOf(v.value) \in ValuesOf(cls)
    THEN Ok(EnumMember(cls, Text(CharsOf(v.value))))
  ELSE ValidationError

\* validation of each item of a list
RECURSIVE validate_each(_, _)
validate_each(Validate(_), seq) ==
  IF seq = <<>> THEN Ok(<<>>)
  ELSE Bind(Validate(Head(seq)), LAMBDA item :
       Bind(validate_each(Validate, Tail(seq)), LAMBDA rest : Ok(<<item>> \o rest)))

\* Optional[List[T]]
validate_optional_list(Validate(_), v) ==
  IF v = Null THEN Ok(Null)
  ELSE IF v.t # "list" THEN ValidationError
  ELSE Bind(validate_each(Validate, v.l), LAMBDA items : Ok(List(items)))

\* str, in pydantic's lax mode: a str, or a member of an Enum, which is
\* replaced by the str of its value.
validate_str(v) ==
  IF IsStr(v) THEN Ok(Text(CharsOf(v)))
  ELSE IF v.t = "enum" THEN Ok(Text(str(v.value)))
  ELSE ValidationError

\* The whitespace that the parsing of an int trims: that of str.strip
\* without the four separators U+001C..U+001F.
IntWhitespace == Whitespace \ {"", "", "", ""}

RECURSIVE trim(_)
trim(c) ==
  IF c # <<>> /\ Head(c) \in IntWhitespace THEN trim(Tail(c))
  ELSE IF c # <<>> /\ c[Len(c)] \in IntWhitespace
    THEN trim(SubSeq(c, 1, Len(c) - 1))
  ELSE c

AllDigits(c) == c # <<>> /\ \A k \in 1..Len(c) : IsIn(Digits, c[k])

\* the number that a sequence of digits writes
RECURSIVE NumberOfDigits(_)
NumberOfDigits(c) ==
  IF c = <<>> THEN 0
  ELSE 10 * NumberOfDigits(SubSeq(c, 1, Len(c) - 1))
         + (IndexIn(Digits, c[Len(c)]) - 1)

StartsWith(c, chars) == c # <<>> /\ Head(c) \in chars

\* an optional sign and one or more digits
parse_int(c) ==
  IF StartsWith(c, {"+", "-"})
    THEN IF AllDigits(Tail(c))
           THEN Ok(Num(IF Head(c) = "-" THEN -NumberOfDigits(Tail(c))
                                         ELSE NumberOfDigits(Tail(c))))
           ELSE ValidationError
    ELSE IF AllDigits(c) THEN Ok(Num(NumberOfDigits(c))) ELSE ValidationError

\* an optional minus sign, then 0 or digits that do not start with 0
parse_number(c) ==
  IF AllDigits(IF StartsWith(c, {"-"}) THEN Tail(c) ELSE c)
       /\ (Head(IF StartsWith(c, {"-"}) THEN Tail(c) ELSE c) # "0"
             \/ Len(IF StartsWith(c, {"-"}) THEN Tail(c) ELSE c) = 1)
    THEN parse_int(c)
    ELSE ValidationError

\* Leading zeros, with the underscores among them, are dropped, up to the
\* first other digit or minus sign, or up to the zero before a point; of a
\* string of zeros and underscores the last character is left.
RECURSIVE skip_leading_zeros(_, _)
skip_leading_zeros(c, i) ==
  IF i > Len(c) THEN Ok(SubSeq(c, Len(c), Len(c)))
  ELSE IF c[i] \in {"0", "_"} THEN skip_leading_zeros(c, i + 1)
  ELSE IF c[i] = "-" \/ (IsIn(Digits, c[i]) /\ c[i] # "0")
    THEN Ok(SubSeq(c, i, Len(c)))
  ELSE IF c[i] = "." THEN Ok(SubSeq(c, i - 1, Len(c)))
  ELSE ValidationError

strip_leading_zeros(c) ==
  IF c = <<>> THEN ValidationError
  ELSE IF Head(c) = "0" THEN skip_leading_zeros(c, 2)
  ELSE IF IsIn(Digits, Head(c)) THEN Ok(c)
  ELSE ValidationError

\* the position of the first point, or 0
PointIn(c) ==
  IF \E k \in 1..Len(c) : c[k] = "."
    THEN CHOOSE k \in 1..Len(c) :
           c[k] = "." /\ \A j \in 1..(k - 1) : c[j] # "."
    ELSE 0

\* a point followed by zeros only, and by one at least, is dropped with them
strip_decimal_zeros(c) ==
  IF PointIn(c) > 0 /\ PointIn(c) < Len(c)
       /\ \A k \in (PointIn(c) + 1)..Len(c) : c[k] = "0"
    THEN SubSeq(c, 1, PointIn(c) - 1)
    ELSE c

\* underscores are dropped, unless one is first or last or two are adjacent
strip_underscores(c) ==
  IF c = <<>> \/ Head(c) = "_" \/ c[Len(c)] = "_"
       \/ \E k \in 1..(Len(c) - 1) : c[k] = "_" /\ c[k + 1] = "_"
    THEN c
    ELSE SelectSeq(c, LAMBDA ch : ch # "_")

\* The str that is parsed when it is not an optional sign and digits: a
\* leading plus sign is dropped, a minus sign is put aside, and what is
\* left is cleaned of leading zeros, decimal zeros and underscores.
clean_int_str(c) ==
  IF StartsWith(c, {"+"}) /\ StartsWith(Tail(c), {"-"}) THEN ValidationError
  ELSE IF StartsWith(c, {"+"}) THEN
    Bind(strip_leading_zeros(Tail(c)), LAMBDA s :
      Ok(strip_underscores(strip_decimal_zeros(s))))
  ELSE IF StartsWith(c, {"-"}) /\ StartsWith(Tail(c), {"+", "-"})
    THEN ValidationError
  ELSE IF StartsWith(c, {"-"}) THEN
    Bind(strip_leading_zeros(Tail(c)), LAMBDA s :
      Ok(<<"-">> \o strip_underscores(strip_decimal_zeros(s))))
  ELSE
    Bind(strip_leading_zeros(c), LAMBDA s :
      Ok(strip_underscores(strip_decimal_zeros(s))))

\* pydantic's parsing of a str as an int
str_as_int(c) ==
  IF parse_int(trim(c)).ok THEN parse_int(trim(c))
  ELSE Bind(clean_int_str(trim(c)), parse_number)

\* int, in pydantic's lax mode: an int; a bool, as 0 or 1; a str that writes
\* an int; and a member of a plain Enum, which is replaced by its value
\* whatever that is.
validate_int(v) ==
  IF v.t = "int" THEN Ok(v)
  ELSE IF v.t = "bool" THEN Ok(Num(IF v.b THEN 1 ELSE 0))
  ELSE IF IsStr(v) THEN str_as_int(CharsOf(v))
  ELSE IF v.t = "enum" THEN Ok(v.value)
  ELSE ValidationError

\* A variant that forgets to trim.
validate_project_num_untrimmed(v) ==
  IF strip(v) = <<>> THEN Raise("ValueError") ELSE Ok(upper(v))

\* models.py 156-166
validate_project_num(v) ==
  IF strip(v) = <<>> THEN Raise("ValueError") ELSE Ok(upper(strip(v)))

\* models.py 148-166: ProjectNum(**d).  The field is required and a str of
\* one character at least; then the validator runs, and a ValueError it
\* raises is reported as a validation error.  Other keys are ignored.
ProjectNum(d) ==
  IF "project_num" \notin DOMAIN d THEN ValidationError
  ELSE Bind(validate_str(d["project_num"]), LAMBDA v :
    IF Len(v.c) < 1 THEN ValidationError
    ELSE IF ~validate_project_num(v.c).ok THEN ValidationError
    ELSE Ok(Model("ProjectNum",
                  [project_num |-> Text(validate_project_num(v.c).val)])))

\* An item of project_nums: an instance of ProjectNum, or the mapping of
\* its fields.
validate_project_num_item(v) ==
  IF v.t = "model" /\ v.cls = "ProjectNum" THEN Ok(v)
  ELSE IF v.t = "dict" THEN ProjectNum(v.d)
  ELSE ValidationError

\* models.py 130-144, for one item of the list
coerce_field(f) ==
  IF f.t = "enum" /\ f.cls = "SearchField" THEN f
  ELSE IF IsStr(f) /\ lower(CharsOf(f)) \in SearchFieldValues
    THEN SearchField(lower(CharsOf(f)))
  ELSE f

\* models.py 123-146
coerce_fields(v) ==
  IF IsStr(v) THEN List(<<coerce_field(v)>>)
  ELSE IF v.t = "list" THEN List([k \in 1..Len(v.l) |-> coerce_field(v.l[k])])
  ELSE v

\* Union[SearchField, List[SearchField]], on what coerce_fields returned
validate_search_field(v) ==
  IF v.t = "list"
    THEN Bind(validate_each(LAMBDA f : validate_enum("SearchField", f), v.l),
              LAMBDA items : Ok(List(items)))
    ELSE validate_enum("SearchField", v)

\* models.py 109-146: AdvancedTextSearch(**d).  A default is not validated;
\* other keys are ignored.
AdvancedTextSearch(d) ==
  IF "search_text" \notin DOMAIN d THEN ValidationError
  ELSE
  Bind(validate_str(d["search_text"]), LAMBDA search_text :
  Bind(IF "operator" \in DOMAIN d
         THEN validate_enum("SearchOperator", d["operator"])
         ELSE Ok(AND), LAMBDA operator :
  Bind(IF "search_field" \in DOMAIN d
         THEN validate_search_field(coerce_fields(d["search_field"]))
         ELSE Ok(List(<<PROJECT_TITLE, ABSTRACT, TERMS>>)), LAMBDA search_field :
  Ok(Model("AdvancedTextSearch",
           [operator |-> operator, search_field |-> search_field,
            search_text |-> search_text])))))

\* Optional[AdvancedTextSearch]: None, an instance, or the mapping of its
\* fields.
validate_text_search(v) ==
  IF v = Null THEN Ok(Null)
  ELSE IF v.t = "model" /\ v.cls = "AdvancedTextSearch" THEN Ok(v)
  ELSE IF v.t = "dict" THEN AdvancedTextSearch(v.d)
  ELSE ValidationError

FieldNames ==
  {"advanced_text_search", "years", "agencies", "organizations", "pi_name",
   "project_nums", "org_states", "opportunity_numbers", "activity_codes",
   "funding_mechanisms"}

\* models.py 315-324: the type of each field
validate_field(name, v) ==
  CASE name = "advanced_text_search" -> validate_text_search(v)
    [] name = "years" -> validate_optional_list(validate_int, v)
    [] name = "agencies" ->
         validate_optional_list(LAMBDA a : validate_enum("NIHAgency", a), v)
    [] name = "pi_name" -> IF v = Null THEN Ok(Null) ELSE validate_str(v)
    [] name = "project_nums" ->
         validate_optional_list(validate_project_num_item, v)
    [] name = "org_states" ->
         validate_optional_list(LAMBDA a : validate_enum("StateCode", a), v)
    [] name = "funding_mechanisms" ->
         validate_optional_list(
           LAMBDA a : validate_enum("FundingMechanism", a), v)
    [] name \in {"organizations", "opportunity_numbers", "activity_codes"} ->
         validate_optional_list(validate_str, v)

\* models.py 315-324: the default of each field
default_of(name) == IF name = "agencies" THEN List(<<NIH>>) ELSE Null

\* models.py 313-324: SearchParams(**a), a the mapping of the arguments
\* supplied.  An argument that names no field is ignored.
SearchParams(a) ==
  IF \E name \in DOMAIN a \cap FieldNames : ~validate_field(name, a[name]).ok
    THEN ValidationError
    ELSE Ok(Model("SearchParams",
                  [name \in FieldNames |->
                     IF name \in DOMAIN a THEN validate_field(name, a[name]).val
                     ELSE default_of(name)]))

\* a.value if hasattr(a, 'value') else a
enum_value(a) == IF a.t = "enum" THEN a.value ELSE a

\* models.py 356, 364, 370: [a.value if hasattr(a, 'value') else a for a in v],
\* on whatever the field holds: what is not iterable raises TypeError.
enum_values(v) ==
  Bind(Iterate(v), LAMBDA items :
    Ok(List([k \in 1..Len(items) |-> enum_value(items[k])])))

\* models.py 362: [a.project_num for a in self.project_nums], on whatever the
\* field holds: what is not iterable raises TypeError, an item without the
\* attribute raises AttributeError.
project_num_strings(v) ==
  LET project_num_of(a) ==
        IF a.t = "model" /\ "project_num" \in DOMAIN a.f
          THEN Ok(a.f.project_num) ELSE Raise("AttributeError")
  IN Bind(Iterate(v), LAMBDA items :
       Bind(validate_each(project_num_of, items), LAMBDA nums : Ok(List(nums))))

\* models.py 338: s.value if isinstance(s, SearchField) else str(s)
field_str(s) ==
  IF s.t = "enum" /\ s.cls = "SearchField" THEN s.value.c ELSE str(s)

\* A variant that serializes the first field only.
search_field_str_first(sf) ==
  IF sf.t = "list"
    THEN IF sf.l = <<>> THEN Text(<<>>) ELSE Text(field_str(sf.l[1]))
    ELSE Text(field_str(sf))

\* models.py 335-344: the comma-separated string the upstream expects
search_field_str(sf) ==
  IF sf.t = "list"
    THEN Text(join(<<",", " ">>, [k \in 1..Len(sf.l) |-> field_str(sf.l[k])]))
    ELSE Text(field_str(sf))

\* models.py 332-350: ats.search_field, ats.search_text and
\* ats.operator.value raise AttributeError on what has no such attribute.
text_search_criteria(ats) ==
  IF ats.t # "model"
       \/ ~({"search_field", "search_text", "operator"} \subseteq DOMAIN ats.f)
    THEN Raise("AttributeError")
  ELSE IF ats.f.operator.t # "enum" THEN Raise("AttributeError")
  ELSE Ok(Dict([search_text |-> ats.f.search_text,
                search_field |-> search_field_str(ats.f.search_field),
                operator |-> ats.f.operator.value]))

\* A variant that tests "is not None" instead of the truth value.
PutNotNone(crit, value, key, wire) ==
  Bind(crit, LAMBDA c :
    IF value # Null THEN Bind(wire, LAMBDA w : Ok(SetItem(c, key, w)))
    ELSE Ok(c))

\* "if self.x: criteria[key] = wire", after the statements that gave crit;
\* wire is evaluated only when the field is truthy.
Put(crit, value, key, wire) ==
  Bind(crit, LAMBDA c :
    IF Truthy(value) THEN Bind(wire, LAMBDA w : Ok(SetItem(c, key, w)))
    ELSE Ok(c))

\* models.py 326-372: the criteria mapping, or the exception of the first
\* statement that raises.
to_api_criteria(self) ==
  Put(Put(Put(Put(Put(Put(Put(Put(Put(Put(
    Ok(Dict(EmptyDict)),
    self.f["advanced_text_search"], "advanced_text_search",
      text_search_criteria(self.f["advanced_text_search"])),
    self.f["years"], "fiscal_years", Ok(self.f["years"])),
    self.f["agencies"], "agencies", enum_values(self.f["agencies"])),
    self.f["organizations"], "org_names", Ok(self.f["organizations"])),
    self.f["pi_name"], "pi_names",
      Ok(List(<<Dict([any_name |-> self.f["pi_name"]])>>))),
    self.f["project_nums"], "project_nums",
      project_num_strings(self.f["project_nums"])),
    self.f["org_states"], "org_states", enum_values(self.f["org_states"])),
    self.f["opportunity_numbers"], "opportunity_numbers",
      Ok(self.f["opportunity_numbers"])),
    self.f["activity_codes"], "activity_codes", Ok(self.f["activity_codes"])),
    self.f["funding_mechanisms"], "funding_mechanisms",
      enum_values(self.f["funding_mechanisms"]))

(***************************************************************************)
(* The Criteria Model on its own (SpecCriteria): a caller's arguments are  *)
(* drawn, validated into a SearchParams, and a tool body hands them to the *)
(* pager, whose first page request carries to_api_criteria().              *)
(***************************************************************************)
MaxIdLen == 2      \* the longest project identifier a caller supplies
MaxFields == 2     \* the most search fields a caller lists
MaxSimple == 1     \* the most plain filters a caller supplies at once

IdAlphabet == {" ", "r", "R", "1"}
RawIdentifiers == { Text(c) : c \in SeqsUpTo(IdAlphabet, MaxIdLen) }

\* An identifier as a caller supplies it: the mapping of the fields of a
\* ProjectNum.
ProjectNumOf(x) == Dict([project_num |-> x])

\* project_nums as supplied: nothing, an empty list, one identifier, or two;
\* an identifier that is an instance of ProjectNum; a bare str.
ProjectNumsInputs ==
  {Null, List(<<>>)}
    \cup { List(<<ProjectNumOf(x)>>) : x \in RawIdentifiers }
    \cup { List(<<ProjectNumOf(x), ProjectNumOf(y)>>) :
             x \in RawIdentifiers, y \in {Text(<<"r", "1">>), Text(<<" ">>)} }
    \cup { List(<<Model("ProjectNum", [project_num |-> Text(<<"R", "1">>)]),
                  ProjectNumOf(Text(<<"r">>))>>),
           List(<<Text(<<"r", "1">>)>>) }

\* A search field as a caller names it: the value of a member, a member in
\* another case, a member of IncludeField, and a name that is no member.
FieldInputs ==
  { Text(<<"t", "e", "r", "m", "s">>),
    Text(<<"A", "b", "s", "t", "r", "a", "c", "t">>),
    EnumMember("IncludeField", Text(<<"T", "e", "r", "m", "s">>)),
    Text(<<"t", "i", "t", "l", "e">>) }

\* One field, a list of fields, or a member of a plain Enum of the caller's
\* with the value of a field.
SearchFieldInputs ==
  FieldInputs \cup { List(q) : q \in SeqsUpTo(FieldInputs, MaxFields) }
    \cup { Member("Scope", "none", Text(<<"t", "e", "r", "m", "s">>)) }

OperatorInputs == { Text(<<"o", "r">>), Text(<<"x", "o", "r">>) }

Cancer == Text(<<"c", "a", "n", "c", "e", "r">>)

Supply(a, name, v) ==
  [k \in DOMAIN a \cup {name} |-> IF k = name THEN v ELSE a[k]]

Merge(a, b) ==
  [k \in DOMAIN a \cup DOMAIN b |-> IF k \in DOMAIN b THEN b[k] ELSE a[k]]

\* advanced_text_search as supplied: nothing, the mapping of its fields, an
\* instance, and an instance made with model_construct whose operator is a
\* plain str: pydantic takes an instance as it is, and to_api_criteria then
\* raises on operator.value.
TextSearchInputs ==
  { Dict(Merge([search_text |-> Cancer], Merge(o, f))) :
      o \in {EmptyDict} \cup { [operator |-> v] : v \in OperatorInputs },
      f \in {EmptyDict} \cup { [search_field |-> v] : v \in SearchFieldInputs } }
    \cup { Null, Dict(EmptyDict), Dict([search_text |-> Text(<<>>)]),
           Model("AdvancedTextSearch",
                 [operator |-> EnumMember("SearchOperator", Text(<<"o", "r">>)),
                  search_field |-> List(<<TERMS>>), search_text |-> Cancer]),
           Model("AdvancedTextSearch",
                 [operator |-> Text(<<"a", "n", "d">>),
                  search_field |-> List(<<TERMS>>), search_text |-> Cancer]) }

SimpleFields == FieldNames \ {"advanced_text_search", "project_nums"}

\* What a caller may supply for a plain filter.
Supplied(name) ==
  CASE name = "years" ->
         {Null, List(<<>>), List(<<Num(2023), Num(2024)>>),
          List(<<Text(<<" ", "0", "7">>), Bool(TRUE)>>)}
    [] name = "agencies" ->
         {Null, List(<<>>), List(<<Text(<<"N", "C", "I">>)>>),
          List(<<Text(<<"X", "Y", "Z">>)>>),
          List(<<EnumMember("NIHAgency", Text(<<"N", "C", "I">>))>>),
          List(<<Member("Institute", "none", Text(<<"N", "C", "I">>))>>)}
    [] name = "pi_name" ->
         {Null, Text(<<>>), Text(<<"A", "d", "a">>),
          Member("Code", "none", Num(7))}
    [] name = "org_states" ->
         {Null, List(<<>>), List(<<Text(<<"M", "D">>)>>),
          List(<<Member("Region", "none", Text(<<"M", "D">>))>>)}
    [] name = "funding_mechanisms" ->
         {Null, List(<<>>), List(<<Text(<<"R", "P">>)>>)}
    [] OTHER -> {Null, List(<<>>), List(<<Text(<<"R", "0", "1">>)>>)}

RECURSIVE SimpleArgs(_)
SimpleArgs(n) ==
  IF n = 0 THEN {EmptyDict}
  ELSE SimpleArgs(n - 1) \cup
       UNION { IF name \in DOMAIN a THEN {}
               ELSE { Supply(a, name, v) : v \in Supplied(name) } :
                 a \in SimpleArgs(n - 1), name \in SimpleFields }

RichArgs ==
  {EmptyDict}
    \cup { [project_nums |-> v] : v \in ProjectNumsInputs }
    \cup { [advanced_text_search |-> v] : v \in TextSearchInputs }

\* The tool's arguments are validated: SearchParams is constructed, or the
\* call is rejected (tools.py 8-11, 205-207).
validate_arguments ==
  /\ phase = "args"
  /\ params' = SearchParams(args)
  /\ phase' = "validated"
  /\ UNCHANGED <<args, criteria, raw, once, twice, dist, pagerVars>>

\* utils.py 96-105: the tool body runs and its pager builds the payload and
\* posts the first page request; an exception of to_api_criteria ends the
\* call before anything is sent.
paged_query_request ==
  /\ phase = "validated" /\ params.ok
  /\ IF to_api_criteria(params.val).ok
       THEN /\ criteria' = to_api_criteria(params.val).val
            /\ sent' = [sent EXCEPT ![1] =
                 <<Payload(to_api_criteria(params.val).val, limit[1], 0)>>]
            /\ inflight' =
                 {Request(1, Payload(to_api_criteria(params.val).val, limit[1], 0))}
            /\ pc' = [pc EXCEPT ![1] = "waiting"]
            /\ phase' = "requested"
            /\ UNCHANGED <<result, returned, offset, total_responses,
                           all_results>>
       ELSE /\ Fail(1, to_api_criteria(params.val).exc)
            /\ phase' = "raised"
            /\ UNCHANGED <<criteria, inflight>>
  /\ UNCHANGED <<args, params, raw, once, twice, dist, srv, tool, fn,
                 search_params, limit, answers>>

InitCriteria ==
  /\ srv = [mode |-> "full", T |-> 0]
  /\ pc = [i \in Invocations |-> IF i = 1 THEN "idle" ELSE "absent"]
  /\ tool = [i \in Invocations |-> "get_project_information"]
  /\ fn = [i \in Invocations |-> "get_all_responses"]
  /\ search_params = [i \in Invocations |-> "A"]
  /\ limit = [i \in Invocations |-> 1]
  /\ offset = [i \in Invocations |-> 0]
  /\ total_responses = [i \in Invocations |-> Null]
  /\ all_results = [i \in Invocations |-> Null]
  /\ result = [i \in Invocations |-> Null]
  /\ returned = [i \in Invocations |-> Null]
  /\ inflight = {}
  /\ sent = [i \in Invocations |-> <<>>]
  /\ answers = [i \in Invocations |-> <<>>]
  /\ raw = Null /\ once = Null /\ twice = Null /\ dist = Null
  /\ args \in { Merge(a, b) : a \in SimpleArgs(MaxSimple), b \in RichArgs }
  /\ params = Null /\ criteria = Null
  /\ phase = "args"

NextCriteria == validate_arguments \/ paged_query_request

SpecCriteria == InitCriteria /\ [][NextCriteria]_vars

(***************************************************************************)
(* Vocabulary of the claims about the pager.                               *)
(***************************************************************************)
Max(a, b) == IF a > b THEN a ELSE b
CeilDiv(a, b) == (a + b - 1) \div b

RECURSIVE Flatten(_)
Flatten(seqs) == IF seqs = <<>> THEN <<>> ELSE Head(seqs) \o Flatten(Tail(seqs))

RECURSIVE SumLen(_, _)
SumLen(seqs, k) == IF k = 0 THEN 0 ELSE Len(seqs[k]) + SumLen(seqs, k - 1)

\* A page request failed: transport error, non-2xx status, no body, or a
\* body without meta.total.
PageFailed(exchange) ==
  \/ exchange.t = "exc"
  \/ exchange.status \notin 200..299
  \/ exchange.body = Null
  \/ "meta" \notin DOMAIN exchange.body.d
  \/ "total" \notin DOMAIN exchange.body.d["meta"].d

\* The answers whose page invocation i accumulated: all of them, but for a
\* last one on which paged_query raised.
Received(i) ==
  IF /\ pc[i] = "failed"
     /\ ~paged_query(answers[i][Len(answers[i])], Null).ok
    THEN SubSeq(answers[i], 1, Len(answers[i]) - 1)
    ELSE answers[i]

\* The normalized records and the reported total of a received answer.
PageRecords(exchange) == Records(clean_json(exchange.body).val)
PageTotal(exchange) == exchange.body.d["meta"].d["total"].n

ReceivedPages(i) == [k \in 1..Len(Received(i)) |-> PageRecords(Received(i)[k])]

Accumulated(i) == all_results[i].d["results"].l
Outstanding(i) == {r \in inflight : r.inv = i}
Exhaustive(i) == fn[i] = "get_all_responses" /\ pc[i] # "absent"
Preview(i) == fn[i] = "get_initial_response" /\ pc[i] # "absent"

(***************************************************************************)
(* C1  Exhaustive fetch stops only when everything has been retrieved:     *)
(* whenever get_all_responses returns, the number of records it returns is *)
(* at least the total reported by the last page received.                  *)
(* The code advances by the page size, not by the records received, so a   *)
(* short page ends the fetch early: TLC refutes this statement.            *)
(***************************************************************************)
C1_ReturnsOnlyWhenAllRetrieved ==
  \A i \in Invocations :
    (Exhaustive(i) /\ pc[i] = "done")
      => Len(result[i].val.d["results"].l)
           >= PageTotal(answers[i][Len(answers[i])])

(***************************************************************************)
(* C2  In exhaustive fetch every page request after the first is issued at *)
(* an offset equal to the number of records accumulated so far.            *)
(* Same cause as C1: the offset is k * limit whatever the pages held.      *)
(***************************************************************************)
C2_OffsetIsRecordsRetrieved ==
  \A i \in Invocations :
    Exhaustive(i) =>
      \A k \in 2..Len(sent[i]) :
        sent[i][k].offset = SumLen(ReceivedPages(i), k - 1)

(***************************************************************************)
(* C3  Against an upstream with a constant total T and full pages,         *)
(* exhaustive fetch with page size L issues exactly max(1, ceil(T/L))      *)
(* requests, at offsets 0, L, 2L, ... in that order, and the accumulated   *)
(* length is the sum of the result counts of the pages received.           *)
(***************************************************************************)
C3_FullPagesSchedule ==
  \A i \in Invocations :
    (Exhaustive(i) /\ srv.mode = "full") =>
      /\ \A k \in 1..Len(sent[i]) : sent[i][k].offset = (k - 1) * limit[i]
      /\ Len(sent[i]) <= Max(1, CeilDiv(srv.T, limit[i]))
      /\ pc[i] # "failed"
      /\ pc[i] = "done" =>
           /\ Len(sent[i]) = Max(1, CeilDiv(srv.T, limit[i]))
           /\ Len(answers[i]) = Len(sent[i])
           /\ Len(result[i].val.d["results"].l)
                = SumLen([k \in 1..Len(answers[i]) |->
                            answers[i][k].body.d["results"].l],
                         Len(answers[i]))

\* T = 3, L = 2: two requests and three records.
C3_Witness ==
  \E i \in Invocations :
    /\ Exhaustive(i) /\ srv.mode = "full" /\ srv.T = 3 /\ limit[i] = 2
    /\ pc[i] = "done"
    /\ Len(sent[i]) = 2 /\ sent[i][2].offset = 2
    /\ Len(result[i].val.d["results"].l) = 3

(***************************************************************************)
(* C4  Bounded preview issues exactly one page request, at offset 0 with   *)
(* the caller's page size, whatever total the server reports; it returns   *)
(* that page's total and only that page's records.                         *)
(***************************************************************************)
C4_PreviewIsOneRequest ==
  \A i \in Invocations :
    Preview(i) =>
      /\ Len(sent[i]) <= 1
      /\ \A k \in 1..Len(sent[i]) :
           sent[i][k].offset = 0 /\ sent[i][k].limit = limit[i]
      /\ pc[i] \in {"waiting", "done", "failed"} => Len(sent[i]) = 1
      /\ pc[i] = "done" =>
           /\ Outstanding(i) = {}
           /\ Len(answers[i]) = 1
           /\ result[i].val.total_responses
                = answers[i][1].body.d["meta"].d["total"]
           /\ result[i].val.all_results.d["results"].l
                = PageRecords(answers[i][1])

\* The returned total exceeds the returned record count.
C4_Witness ==
  \E i \in Invocations :
    /\ Preview(i) /\ pc[i] = "done"
    /\ result[i].val.total_responses.t = "int"
    /\ result[i].val.total_responses.n
         > Len(result[i].val.all_results.d["results"].l)
    /\ Len(result[i].val.all_results.d["results"].l) > 0

(***************************************************************************)
(* C5  Within one exhaustive fetch the offsets of successive requests are  *)
(* strictly increasing, and the accumulated results are the concatenation  *)
(* of the pages' results in the order the pages were requested.            *)
(***************************************************************************)
C5_IncreasingOffsetsAndArrivalOrder ==
  \A i \in Invocations :
    Exhaustive(i) =>
      /\ \A k \in 1..(Len(sent[i]) - 1) :
           sent[i][k].offset < sent[i][k + 1].offset
      /\ all_results[i] # Null => Accumulated(i) = Flatten(ReceivedPages(i))
      /\ pc[i] = "done" => result[i].val = all_results[i]

\* Two non-empty pages were accumulated, the second different from the first.
C5_Witness ==
  \E i \in Invocations :
    /\ Exhaustive(i) /\ pc[i] = "done" /\ Len(answers[i]) >= 2
    /\ PageRecords(answers[i][1]) # <<>>
    /\ PageRecords(answers[i][2]) # <<>>
    /\ PageRecords(answers[i][1]) # PageRecords(answers[i][2])

(***************************************************************************)
(* C6  If any page request of a fetch fails (transport error, non-2xx      *)
(* status, missing body, or a body without meta.total), the whole fetch    *)
(* fails: no result set is returned, the failed page is not retried and no *)
(* further page request is issued in that invocation.                      *)
(* raise_for_status raises on 400-599 only: an answer with status 100, 301 *)
(* or 600 and a well-formed body is accumulated like a 200 and the fetch   *)
(* goes on or returns: TLC refutes this.                                   *)
(***************************************************************************)
C6_FailedPageFailsFetch ==
  \A i \in Invocations :
    \A k \in 1..Len(answers[i]) :
      PageFailed(answers[i][k]) =>
        /\ pc[i] = "failed"
        /\ ~result[i].ok
        /\ k = Len(answers[i])
        /\ Len(sent[i]) = Len(answers[i])
        /\ Outstanding(i) = {}

(***************************************************************************)
(* C7  Within one invocation page requests are strictly sequential: at     *)
(* most one is outstanding, and page N+1 is requested only after the       *)
(* answer to page N has been received.                                     *)
(***************************************************************************)
C7_OneRequestAtATime ==
  \A i \in Invocations :
    /\ Cardinality(Outstanding(i)) <= 1
    /\ Len(sent[i]) = Len(answers[i]) + Cardinality(Outstanding(i))
    /\ \A r \in Outstanding(i) : r.payload = sent[i][Len(sent[i])]

\* Page 2 is outstanding and page 1 has been answered.
C7_Witness ==
  \E i \in Invocations :
    /\ pc[i] = "waiting" /\ Len(answers[i]) = 1 /\ Len(sent[i]) = 2
    /\ Cardinality(Outstanding(i)) = 1

(***************************************************************************)
(* C8  Concurrent invocations do not interfere: under every interleaving   *)
(* each invocation's accumulated result set holds exactly the records of   *)
(* the pages that invocation itself requested, starting from empty.        *)
(***************************************************************************)
C8_NoInterference ==
  \A i \in Invocations :
    all_results[i] # Null =>
      /\ Accumulated(i) = Flatten(ReceivedPages(i))
      /\ \A k \in 1..Len(Accumulated(i)) :
           /\ Accumulated(i)[k].d["org_name"] = Str("Univ " \o search_params[i])
           /\ "project_num" \in DOMAIN Accumulated(i)[k].d =>
                \E n \in 0..(ConcMaxTotal + ConcMaxLimit) :
                  Accumulated(i)[k].d["project_num"]
                    = Str(search_params[i] \o ToString(n))
      /\ all_results[i].d["meta"] = Received(i)[1].body.d["meta"]

\* Both invocations are between two of their pages, each holding records.
C8_Witness ==
  /\ \A i \in Invocations :
       /\ pc[i] = "waiting" /\ Len(answers[i]) >= 1
       /\ Accumulated(i) # <<>>
  /\ search_params[1] # search_params[2]

(***************************************************************************)
(* Vocabulary of the claims about the Normalizer and the Aggregator.       *)
(***************************************************************************)
\* A record clean_json can flatten: a mapping whose sub-objects, where
\* present, hold the keys read from them.
WellFormed(record) == IsDict(record) /\ clean_project(record).ok

\* No record of the page carries a nested sub-object any more.
Flat(page) ==
  \A k \in 1..Len(Records(page)) :
    IsDict(Records(page)[k]) =>
      \A key \in DOMAIN Records(page)[k].d :
        Hashable(Records(page)[k].d[key])

(***************************************************************************)
(* C9  clean_json is idempotent: applied to an already-normalized page it  *)
(* succeeds and yields the same page as applying it once.                  *)
(* The code keeps the keys agency_ic_admin and principal_investigators,    *)
(* now holding strings, and subscripts them again: TLC refutes this.       *)
(***************************************************************************)
C9_NormalizerIdempotent ==
  phase = "recleaned" => (twice.ok /\ twice.val = once.val)

(***************************************************************************)
(* C10  Degenerate records never fail a fetch or an aggregation: a record  *)
(* that is not a mapping, or a sub-object lacking an expected key, is      *)
(* skipped by clean_json and by get_project_distributions instead of       *)
(* raising, and the remaining records are processed normally.              *)
(* get_project_distributions does skip them; clean_json raises: TLC        *)
(* refutes this.                                                           *)
(***************************************************************************)
C10_DegenerateRecordsSkipped ==
  /\ phase = "cleaned" =>
       /\ once.ok
       /\ \A k \in 1..Len(Records(raw)) :
            WellFormed(Records(raw)[k]) =>
              \E j \in 1..Len(Records(once.val)) :
                Records(once.val)[j] = clean_project(Records(raw)[k]).val
  /\ (phase = "aggregated" \/ (phase = "aggregated_raw" /\ Flat(raw))) =>
       /\ dist.ok
       /\ Len(dist.val.project_ids)
            = Cardinality({k \in 1..Len(Records(raw)) :
                             IsDict(Records(raw)[k])})

\* The Aggregator's half of C10, which the code does keep: on a page of
\* flat records and non-mappings it returns, counting the mappings only.
AggregatorSkipsNonMappings ==
  (phase = "aggregated_raw" /\ Flat(raw)) =>
       /\ dist.ok
       /\ Len(dist.val.project_ids)
            = Cardinality({k \in 1..Len(Records(raw)) :
                             IsDict(Records(raw)[k])})

(***************************************************************************)
(* C11  For every well-formed raw record clean_json produces a record in   *)
(* which a present organization sub-object is removed and replaced by the  *)
(* scalars org_name and org_state taken from it, a present agency_ic_admin *)
(* sub-object is replaced by its abbreviation, a present                   *)
(* principal_investigators list is replaced by the list of full_name       *)
(* strings in the same order, and every other field, as well as any of the *)
(* three keys that is absent, is left unchanged.                           *)
(***************************************************************************)
SubObjectKeys == {"organization", "agency_ic_admin", "principal_investigators"}

\* A raw record whose sub-objects, where present, hold the keys the upstream
\* documents for them.
WellFormedRaw(r) ==
  /\ IsDict(r)
  /\ "organization" \in DOMAIN r.d =>
       {"org_name", "org_state"} \subseteq DOMAIN r.d["organization"].d
  /\ "agency_ic_admin" \in DOMAIN r.d =>
       "abbreviation" \in DOMAIN r.d["agency_ic_admin"].d
  /\ "principal_investigators" \in DOMAIN r.d =>
       \A j \in 1..Len(r.d["principal_investigators"].l) :
         "full_name" \in DOMAIN r.d["principal_investigators"].l[j].d

\* c is the flat form of the raw record r.
FlatFormOf(c, r) ==
  /\ IsDict(c)
  /\ DOMAIN c.d =
       (DOMAIN r.d \ {"organization"}) \cup
         (IF "organization" \in DOMAIN r.d THEN {"org_name", "org_state"} ELSE {})
  /\ "organization" \in DOMAIN r.d =>
       /\ c.d["org_name"] = r.d["organization"].d["org_name"]
       /\ c.d["org_state"] = r.d["organization"].d["org_state"]
  /\ "agency_ic_admin" \in DOMAIN r.d =>
       c.d["agency_ic_admin"] = r.d["agency_ic_admin"].d["abbreviation"]
  /\ "principal_investigators" \in DOMAIN r.d =>
       c.d["principal_investigators"] =
         List([j \in 1..Len(r.d["principal_investigators"].l) |->
                 r.d["principal_investigators"].l[j].d["full_name"]])
  /\ \A key \in DOMAIN r.d \ SubObjectKeys : c.d[key] = r.d[key]

C11_NormalizerFlattens ==
  (phase = "cleaned"
     /\ \A k \in 1..Len(Records(raw)) : WellFormedRaw(Records(raw)[k])) =>
    /\ once.ok
    /\ once.val.d["meta"] = raw.d["meta"]
    /\ Len(Records(once.val)) = Len(Records(raw))
    /\ \A k \in 1..Len(Records(raw)) :
         FlatFormOf(Records(once.val)[k], Records(raw)[k])

\* A page was normalized that holds a record with all three sub-objects and
\* a record with none of them.
C11_Witness ==
  /\ phase = "cleaned" /\ once.ok
  /\ \A k \in 1..Len(Records(raw)) : WellFormedRaw(Records(raw)[k])
  /\ \E k \in 1..Len(Records(raw)) :
       SubObjectKeys \subseteq DOMAIN Records(raw)[k].d
  /\ \E k \in 1..Len(Records(raw)) :
       SubObjectKeys \cap DOMAIN Records(raw)[k].d = {}

(***************************************************************************)
(* Vocabulary of the claims about the Criteria Model.                      *)
(***************************************************************************)
\* The key under which a field of SearchParams goes on the wire.
WireKey(name) ==
  CASE name = "years" -> "fiscal_years"
    [] name = "organizations" -> "org_names"
    [] name = "pi_name" -> "pi_names"
    [] OTHER -> name

\* Null, an empty list or an empty string.
Empty(v) == v = Null \/ v = List(<<>>) \/ v = Text(<<>>)

(***************************************************************************)
(* C12  to_api_criteria emits a key only for a field that is set and       *)
(* non-empty: no key of the criteria mapping has a null, empty-list or     *)
(* empty-string value, and a SearchParams with nothing set except the      *)
(* default agency produces a mapping whose only key is agencies.           *)
(***************************************************************************)
C12_OmitsUnsetFields ==
  phase = "requested" =>
    /\ sent[1][1].criteria = criteria
    /\ \A key \in DOMAIN criteria.d : ~Empty(criteria.d[key])
    /\ \A name \in FieldNames :
         WireKey(name) \in DOMAIN criteria.d <=> ~Empty(params.val.f[name])
    /\ DOMAIN args = {} =>
         criteria = Dict([agencies |-> List(<<Text(<<"N", "I", "H">>)>>)])

\* Criteria were produced from arguments that set one filter to an empty
\* list and another to a value.
C12_Witness ==
  /\ phase = "requested"
  /\ \E name \in DOMAIN args : args[name] = List(<<>>)
  /\ \E name \in DOMAIN args :
       ~Empty(args[name]) /\ WireKey(name) \in DOMAIN criteria.d
  /\ "agencies" \in DOMAIN criteria.d

(***************************************************************************)
(* C13  Project identifiers are normalized at construction and only        *)
(* normalized identifiers reach the wire: every constructed ProjectNum     *)
(* holds a string that is trimmed, non-empty and uppercase (normalizing it *)
(* again changes nothing); an input that is empty after trimming is        *)
(* rejected with a validation error before any page request is issued; and *)
(* criteria["project_nums"] is a plain list of the normalized strings in   *)
(* input order.                                                            *)
(***************************************************************************)
Trimmed(c) == c # <<>> /\ c[1] \notin Whitespace /\ c[Len(c)] \notin Whitespace
Uppercase(c) == \A k \in 1..Len(c) : ~IsIn(LowerCase, c[k])
Blank(c) == \A k \in 1..Len(c) : c[k] \in Whitespace

\* y is the character x, or its capital when x is a small letter.
CapitalOf(x, y) ==
  IF IsIn(LowerCase, x) THEN IsIn(UpperCase, y)
                             /\ IndexIn(UpperCase, y) = IndexIn(LowerCase, x)
  ELSE y = x

\* out is what is left of in between its leading and trailing whitespace,
\* letter by letter in capitals.
NormalFormOf(out, in) ==
  \E a \in 0..Len(in) : \E b \in a..Len(in) :
    /\ \A n \in 1..a : in[n] \in Whitespace
    /\ \A n \in (b + 1)..Len(in) : in[n] \in Whitespace
    /\ Len(out) = b - a
    /\ \A n \in 1..Len(out) : CapitalOf(in[a + n], out[n])

\* The identifier in an item of project_nums as supplied.
IdentifierOf(item) ==
  CASE item.t = "dict" -> item.d["project_num"]
    [] item.t = "model" -> item.f.project_num
    [] item.t = "text" -> item

SuppliedIdentifiers ==
  IF "project_nums" \in DOMAIN args /\ args["project_nums"] # Null
    THEN [k \in 1..Len(args["project_nums"].l) |->
            IdentifierOf(args["project_nums"].l[k])]
    ELSE <<>>

C13_IdentifiersNormalized ==
  /\ (phase # "args" /\ params.ok /\ params.val.f["project_nums"] # Null) =>
       \A k \in 1..Len(params.val.f["project_nums"].l) :
         /\ Trimmed(params.val.f["project_nums"].l[k].f.project_num.c)
         /\ Uppercase(params.val.f["project_nums"].l[k].f.project_num.c)
         /\ validate_project_num(
              params.val.f["project_nums"].l[k].f.project_num.c)
              = Ok(params.val.f["project_nums"].l[k].f.project_num.c)
  /\ (phase # "args"
        /\ \E k \in 1..Len(SuppliedIdentifiers) : Blank(SuppliedIdentifiers[k].c)) =>
       /\ params = ValidationError
       /\ phase # "requested" /\ sent[1] = <<>> /\ inflight = {}
  /\ (phase = "requested" /\ SuppliedIdentifiers # <<>>) =>
       /\ criteria.d["project_nums"].t = "list"
       /\ Len(criteria.d["project_nums"].l) = Len(SuppliedIdentifiers)
       /\ \A k \in 1..Len(SuppliedIdentifiers) :
            /\ criteria.d["project_nums"].l[k].t = "text"
            /\ Trimmed(criteria.d["project_nums"].l[k].c)
            /\ NormalFormOf(criteria.d["project_nums"].l[k].c,
                            SuppliedIdentifiers[k].c)
       /\ sent[1][1].criteria.d["project_nums"] = criteria.d["project_nums"]

\* Two identifiers reached the wire, the first supplied with surrounding
\* whitespace and in small letters.
C13_Witness ==
  /\ phase = "requested"
  /\ Len(SuppliedIdentifiers) = 2
  /\ SuppliedIdentifiers[1] = Text(<<" ", "r">>)
  /\ criteria.d["project_nums"] = List(<<Text(<<"R">>), Text(<<"R", "1">>)>>)

(***************************************************************************)
(* Vocabulary of the claims about the Aggregator's output.                 *)
(***************************************************************************)
\* get_project_distributions has been applied, to these records.
Aggregated == phase \in {"aggregated", "aggregated_raw"}
AggregatedRecords ==
  IF phase = "aggregated" THEN Records(once.val) ELSE Records(raw)

\* The positions of the records that are mappings and carry the field.
Carrying(field) ==
  { k \in 1..Len(AggregatedRecords) :
      IsDict(AggregatedRecords[k]) /\ field \in DOMAIN AggregatedRecords[k].d }

\* The positions of the records whose field equals v.
Holding(field, v) ==
  { k \in Carrying(field) : AggregatedRecords[k].d[field] = v }

\* An empty string, a zero or false.
Blanked(v) == v = Str("") \/ v = Num(0) \/ v = Bool(FALSE)

\* The frequency table of a field over its non-null values.
NonNullTable(field) ==
  [v \in { AggregatedRecords[k].d[field] : k \in Carrying(field) } \ {Null} |->
     Cardinality(Holding(field, v))]

\* The frequency table of a field over its values that are neither null nor
\* an empty string, zero or false.
NonBlankTable(field) ==
  [v \in { x \in { AggregatedRecords[k].d[field] : k \in Carrying(field) } :
             x # Null /\ ~Blanked(x) } |->
     Cardinality(Holding(field, v))]

\* The table of the active flag: true under "Active", false under "Inactive".
FlagOf(label) == IF label = Str("Active") THEN Bool(TRUE) ELSE Bool(FALSE)
ActiveTable ==
  [label \in { l \in {Str("Active"), Str("Inactive")} :
                 Holding("is_active", FlagOf(l)) # {} } |->
     Cardinality(Holding("is_active", FlagOf(label)))]

(***************************************************************************)
(* C14 (as claimed)  Each frequency table maps each value v to the number  *)
(* of records whose field is present (non-null) and equals v; records with *)
(* a missing or null value are in no bucket; a true flag counts under      *)
(* "Active", a false flag under "Inactive", only a null or absent flag is  *)
(* excluded.                                                               *)
(* The five value tables filter on the truth value of the field, so an     *)
(* empty string or a zero is left out as well: TLC refutes this.           *)
(***************************************************************************)
C14_CountsNonNullValues ==
  Aggregated =>
    /\ dist.ok
    /\ dist.val.year_distribution = NonNullTable("fiscal_year")
    /\ dist.val.institute_distribution = NonNullTable("agency_ic_admin")
    /\ dist.val.activity_code_distribution = NonNullTable("activity_code")
    /\ dist.val.organization_distribution = NonNullTable("org_name")
    /\ dist.val.funding_mechanism_distribution = NonNullTable("funding_mechanism")
    /\ dist.val.active_status_distribution = ActiveTable

(***************************************************************************)
(* C14 (amended)  Each of the five value tables maps each scalar value v   *)
(* that is neither null nor an empty string, zero or false to the number   *)
(* of records whose field equals v; records whose value is missing, null,  *)
(* empty, zero or false are in no bucket of that dimension; the            *)
(* active-status table is as claimed.                                      *)
(***************************************************************************)
C14_CountsNonBlankValues ==
  Aggregated =>
    /\ dist.ok
    /\ dist.val.year_distribution = NonBlankTable("fiscal_year")
    /\ dist.val.institute_distribution = NonBlankTable("agency_ic_admin")
    /\ dist.val.activity_code_distribution = NonBlankTable("activity_code")
    /\ dist.val.organization_distribution = NonBlankTable("org_name")
    /\ dist.val.funding_mechanism_distribution = NonBlankTable("funding_mechanism")
    /\ dist.val.active_status_distribution = ActiveTable

\* Four records with the years 2022, 2022, 2023 and null were aggregated.
C14_Witness ==
  /\ Aggregated /\ dist.ok
  /\ Len(AggregatedRecords) = 4
  /\ \A k \in 1..4 : IsDict(AggregatedRecords[k])
  /\ [k \in 1..4 |-> Get(AggregatedRecords[k], "fiscal_year")]
       = <<Num(2022), Num(2022), Num(2023), Null>>
  /\ dist.val.year_distribution = [v \in {Num(2022), Num(2023)} |->
                                     IF v = Num(2022) THEN 2 ELSE 1]

(***************************************************************************)
(* C15  Award-amount statistics are computed over exactly the records      *)
(* whose award_amount is non-null, an amount of 0 included: count is their *)
(* number, total their sum, min and max their extremes, average is total / *)
(* count and lies between min and max; with no such record the statistics  *)
(* are total 0, average 0, min 0, max 0, count 0, all five keys present.   *)
(***************************************************************************)
Amounts == { k \in Carrying("award_amount") :
               AggregatedRecords[k].d["award_amount"] # Null }
AmountAt(k) == AggregatedRecords[k].d["award_amount"].n

RECURSIVE SumOver(_)
SumOver(S) ==
  IF S = {} THEN 0
  ELSE AmountAt(CHOOSE k \in S : TRUE) + SumOver(S \ {CHOOSE k \in S : TRUE})

C15_AwardStatistics ==
  Aggregated =>
    /\ dist.ok
    /\ DOMAIN dist.val.award_amount_stats
         = {"total", "average", "min", "max", "count"}
    /\ dist.val.award_amount_stats.count = Cardinality(Amounts)
    /\ dist.val.award_amount_stats.total = SumOver(Amounts)
    /\ Amounts = {} =>
         /\ dist.val.award_amount_stats.average = [num |-> 0, den |-> 1]
         /\ dist.val.award_amount_stats.min = 0
         /\ dist.val.award_amount_stats.max = 0
    /\ Amounts # {} =>
         /\ dist.val.award_amount_stats.average
              = [num |-> SumOver(Amounts), den |-> Cardinality(Amounts)]
         /\ \A k \in Amounts :
              /\ dist.val.award_amount_stats.min <= AmountAt(k)
              /\ dist.val.award_amount_stats.max >= AmountAt(k)
         /\ \E k \in Amounts : dist.val.award_amount_stats.min = AmountAt(k)
         /\ \E k \in Amounts : dist.val.award_amount_stats.max = AmountAt(k)
         /\ dist.val.award_amount_stats.min * Cardinality(Amounts)
              <= SumOver(Amounts)
         /\ SumOver(Amounts)
              <= dist.val.award_amount_stats.max * Cardinality(Amounts)

\* The amounts 100, 200 and 300 were aggregated, with a record without an
\* amount among them.
C15_Witness ==
  /\ Aggregated /\ dist.ok
  /\ Len(AggregatedRecords) = 4
  /\ { AmountAt(k) : k \in Amounts } = {100, 200, 300}
  /\ dist.val.award_amount_stats
       = [total |-> 600, average |-> [num |-> 600, den |-> 3],
          min |-> 100, max |-> 300, count |-> 3]

(***************************************************************************)
(* C16  The project_ids list holds distinct identifiers: no identifier     *)
(* appears more than once, identifiers appear in first-occurrence order,   *)
(* and records that are not mappings or lack an identifier contribute      *)
(* nothing.                                                                *)
(* The code appends one entry per record that has an identifier, so two    *)
(* records with the same project_num give two entries: TLC refutes this.   *)
(***************************************************************************)
Identified ==
  { k \in Carrying("project_num") :
      Truthy(AggregatedRecords[k].d["project_num"]) }
FirstOf(id) ==
  CHOOSE k \in Identified :
    /\ AggregatedRecords[k].d["project_num"] = id.d["project_num"]
    /\ \A j \in Identified :
         AggregatedRecords[j].d["project_num"] = id.d["project_num"] => k <= j

C16_DistinctProjectIds ==
  (Aggregated /\ dist.ok) =>
    /\ { dist.val.project_ids[n] : n \in 1..Len(dist.val.project_ids) }
         = { Dict([project_num |-> AggregatedRecords[k].d["project_num"]]) :
               k \in Identified }
    /\ \A m, n \in 1..Len(dist.val.project_ids) :
         m < n =>
           /\ dist.val.project_ids[m] # dist.val.project_ids[n]
           /\ FirstOf(dist.val.project_ids[m]) < FirstOf(dist.val.project_ids[n])

(***************************************************************************)
(* C17  After an exhaustive fetch of two or more pages, the meta of the    *)
(* returned result set is the meta of the most recently received page: if  *)
(* a later page reports a different total, the returned meta.total is the  *)
(* later value, the one the loop's termination test used.                  *)
(* paged_query builds the accumulator, meta included, on the first page    *)
(* only and never touches its meta again: TLC refutes this.                *)
(***************************************************************************)
C17_MetaOfMostRecentPage ==
  \A i \in Invocations :
    (Exhaustive(i) /\ pc[i] = "done" /\ Len(answers[i]) >= 2) =>
      /\ result[i].val.d["meta"] = answers[i][Len(answers[i])].body.d["meta"]
      /\ result[i].val.d["meta"].d["total"] = total_responses[i]


(***************************************************************************)
(* C18  get_search_summary returns the total_projects that search_projects *)
(* returns for the same criteria and upstream: the total the server        *)
(* reported (meta.total), whatever the records of the result set look      *)
(* like.                                                                   *)
(* get_search_summary counts the identifiers it collected instead          *)
(* (tools.py 114): TLC refutes this.                                       *)
(***************************************************************************)
FirstPageOf(i) == paged_query(answers[i][1], Null)

PreviewOf(i) ==
  search_projects(FirstPageOf(i).val.total, FirstPageOf(i).val.all_results)

C18_SummaryTotalIsServerTotal ==
  \A i \in Invocations :
    (tool[i] = "get_search_summary" /\ pc[i] = "done" /\ returned[i].ok) =>
      /\ returned[i].val.total_projects = FirstPageOf(i).val.total
      /\ PreviewOf(i).ok =>
           returned[i].val.total_projects = PreviewOf(i).val.total_projects

(***************************************************************************)
(* C19  find_project_ids reports has_more_results = true exactly when the  *)
(* server total exceeds the number of records of the page it fetched;      *)
(* returned_projects is the length of project_ids and never exceeds the    *)
(* page size.                                                              *)
(* The comparison is made against the number of identifiers collected,     *)
(* which is smaller than the page when a record has no project_num         *)
(* (tools.py 179): TLC refutes this.                                       *)
(***************************************************************************)
C19_HasMoreResults ==
  \A i \in Invocations :
    (tool[i] = "find_project_ids" /\ pc[i] = "done" /\ returned[i].ok) =>
      /\ returned[i].val.has_more_results =
           Bool(total_responses[i].n > Len(Accumulated(i)))
      /\ returned[i].val.returned_projects =
           Num(Len(returned[i].val.project_ids))
      /\ returned[i].val.returned_projects.n <= limit[i]


(***************************************************************************)
(* C20  When a free-text search is present, the search_field of            *)
(* criteria["advanced_text_search"] is one string: the values of the       *)
(* fields the caller named, in the caller's order, joined with ", ",       *)
(* whether one field or a list was supplied; with no search_field supplied *)
(* it is "projecttitle, abstract, terms", and with no operator supplied    *)
(* the operator is "and".                                                  *)
(***************************************************************************)
\* y is the character x, or its small letter when x is a capital.
SmallOf(x, y) ==
  IF IsIn(UpperCase, x) THEN IsIn(LowerCase, y)
                             /\ IndexIn(LowerCase, y) = IndexIn(UpperCase, x)
  ELSE y = x

\* The value of the search field a caller names, in whatever case.
ValueNamed(name) ==
  CHOOSE v \in SearchFieldValues :
    /\ Len(v) = Len(CharsOf(name))
    /\ \A k \in 1..Len(v) : SmallOf(CharsOf(name)[k], v[k])

RECURSIVE CommaSeparated(_)
CommaSeparated(parts) ==
  IF parts = <<>> THEN <<>>
  ELSE IF Len(parts) = 1 THEN parts[1]
  ELSE CommaSeparated(SubSeq(parts, 1, Len(parts) - 1))
         \o <<",", " ">> \o parts[Len(parts)]

\* The fields of the text search supplied, as a mapping or as an instance.
SuppliedTextSearch ==
  IF args["advanced_text_search"].t = "model"
    THEN args["advanced_text_search"].f
    ELSE args["advanced_text_search"].d

\* The fields the caller named, one or a list of them.
SuppliedFields ==
  IF SuppliedTextSearch["search_field"].t = "list"
    THEN SuppliedTextSearch["search_field"].l
    ELSE <<SuppliedTextSearch["search_field"]>>

DefaultSearchField ==
  <<"p", "r", "o", "j", "e", "c", "t", "t", "i", "t", "l", "e", ",", " ",
    "a", "b", "s", "t", "r", "a", "c", "t", ",", " ", "t", "e", "r", "m", "s">>

C20_SearchFieldIsOneString ==
  (phase = "requested" /\ "advanced_text_search" \in DOMAIN criteria.d) =>
    /\ criteria.d["advanced_text_search"].d["search_field"].t = "text"
    /\ criteria.d["advanced_text_search"].d["search_field"].c =
         IF "search_field" \in DOMAIN SuppliedTextSearch
           THEN CommaSeparated([k \in 1..Len(SuppliedFields) |->
                                  ValueNamed(SuppliedFields[k])])
           ELSE DefaultSearchField
    /\ criteria.d["advanced_text_search"].d["operator"] =
         IF "operator" \in DOMAIN SuppliedTextSearch
           THEN enum_value(SuppliedTextSearch["operator"])
           ELSE Text(<<"a", "n", "d">>)

\* a list of two fields, one of them in another case, and no operator
C20_Witness ==
  /\ phase = "requested"
  /\ "advanced_text_search" \in DOMAIN args
  /\ args["advanced_text_search"] # Null
  /\ "operator" \notin DOMAIN SuppliedTextSearch
  /\ "search_field" \in DOMAIN SuppliedTextSearch
  /\ SuppliedTextSearch["search_field"] =
       List(<<Text(<<"A", "b", "s", "t", "r", "a", "c", "t">>),
              Text(<<"t", "e", "r", "m", "s">>)>>)
  /\ criteria.d["advanced_text_search"].d["search_field"] =
       Text(<<"a", "b", "s", "t", "r", "a", "c", "t", ",", " ",
              "t", "e", "r", "m", "s">>)
  /\ criteria.d["advanced_text_search"].d["operator"] = Text(<<"a", "n", "d">>)


(***************************************************************************)
(* C21  An exhaustive fetch always terminates: for every page size, zero   *)
(* and negative ones included, against an upstream whose totals are        *)
(* bounded and that answers every request, get_all_responses issues        *)
(* finitely many page requests and eventually returns or fails.            *)
(* With a page size of zero or less the loop test offset + limit < total   *)
(* stays true for any positive total (utils.py 142-143): TLC refutes this. *)
(***************************************************************************)
Terminated(i) == pc[i] \in {"done", "failed"}

C21_ExhaustiveFetchTerminates ==
  \A i \in Invocations :
    (Exhaustive(i) /\ pc[i] = "waiting") ~> Terminated(i)


(***************************************************************************)
(* C22  The request schedule of an exhaustive fetch does not depend on the *)
(* contents of the pages: two fetches with the same page size whose        *)
(* answers report the same totals issue the same number of requests at the *)
(* same offsets, whatever the number or the shape of the records in each   *)
(* page.  Stated on two invocations: where one has stopped after k         *)
(* answers, the other, given the same k totals, has stopped as well.       *)
(* A page holding a degenerate record makes clean_json raise and ends the  *)
(* fetch where a well-formed page with the same total goes on: TLC refutes *)
(* this.                                                                   *)
(***************************************************************************)
\* The answer reports a total.
ReportsTotal(exchange) ==
  /\ ~PageFailed(exchange)
  /\ exchange.body.d["meta"].d["total"].t = "int"

\* The first k answers of i and of j all report a total, the same one.
SameTotals(i, j, k) ==
  /\ Len(answers[i]) >= k /\ Len(answers[j]) >= k
  /\ \A n \in 1..k :
       /\ ReportsTotal(answers[i][n]) /\ ReportsTotal(answers[j][n])
       /\ PageTotal(answers[i][n]) = PageTotal(answers[j][n])

C22_ScheduleIndependentOfContents ==
  \A i, j \in Invocations :
    (Exhaustive(i) /\ Exhaustive(j) /\ limit[i] = limit[j]) =>
      /\ \A n \in 1..Min(Len(sent[i]), Len(sent[j])) :
           sent[i][n].offset = sent[j][n].offset
      /\ (Terminated(i) /\ SameTotals(i, j, Len(answers[i]))) =>
           Len(sent[j]) = Len(sent[i])

====
